---- MODULE Spec2Model ----
(***************************************************************************)
(* Model of the rspamd-iscan orchestration engine:                         *)
(*   internal/iscan/client.go    (ProcessScanBox, replaceWithModifiedMails,*)
(*                                learn, Start, Stop)                      *)
(*   internal/imapclt/client.go  (Monitor, mailboxUpdateHandler,           *)
(*                                sendEventNewMessages, Move, Upload)      *)
(*   internal/imapclt/message.go (Messages, fetchNext)                     *)
(* Mailboxes live on the IMAP server.  Every IMAP command and every call   *)
(* of the analyzer has a succeeding and a failing action.                  *)
(***************************************************************************)
EXTENDS Integers, Sequences, FiniteSets, TLC

\* ---------------------------------------------------------------- bounds
\* Number of mails another client delivers to the scan mailbox.
MaxMails == 2
\* Scores the analyzer may report are 0..MaxScore.
MaxScore == 2
\* Number of mails delivered to the ham and to the undetected mailbox.
MaxLearn == 2
\* The same while the engine or a pass with malformed mails runs.
MaxStartLearn == 1
\* Failures injected into a run of the fair specifications.
MaxFaults == 2
\* Number of mails delivered to the scan mailbox while Start runs.
MaxStartMails == 1
\* Largest MaxRetriesSameError a Runner is configured with.
MaxRetries == 3
\* Longest RetryIntervals and longest duration in it, in milliseconds.
MaxIntervals == 2
MaxDuration == 2
\* Distinct root causes of the errors r.Fn returns.
MaxCauses == 2
\* Invocations of r.Fn in one Run, and calls of Run on one Runner.
MaxCalls == 4
MaxRuns == 2
\* Longest message file, and the size of buf in addHeaders (4096 in the code).
MaxFile == 8
ChunkSize == 5
\* Runs of equal characters in an argument of AsHeader.
MaxStrRuns == 2
\* Wrappers around the root cause of an error.
MaxLayers == 2
\* Symbols of a verdict.
MaxSymbols == 3

\* Messages of a pass that spools mails to disk.
MaxTmpMails == 2

\* Addresses in the To, the Cc and the Bcc list of an envelope.
MaxAddrs == 2

\* mail/mail.go: maxLineLength
maxLineLength == 1000

\* imapclt/client.go: defChanBufSiz
defChanBufSiz == 1

Mails == 1..MaxMails
Scores == 0..MaxScore
LearnMails == 1..MaxLearn
ChanIds == {1, 2}
Stoppers == {1, 2}
Nil == 0
\* Value of faultsLeft when any number of failures may be injected.
Unlimited == MaxFaults + 1

VARIABLES
    \* --- IMAP server
    scanMailbox,       \* UIDs (= mail ids) of the originals in ScanMailbox
    backupMailbox,     \* [Mails -> Nat]: copies of each original in BackupMailbox
    inboxMailbox,      \* [Mails -> Nat]: annotated copies in InboxMailbox
    spamMailbox,       \* [Mails -> Nat]: annotated copies in SpamMailbox
    nextUID,           \* UID the next mail delivered to ScanMailbox gets
    lastUID,           \* UID of the last mail another client delivers
    hamMailbox,        \* mails in HamMailbox
    undetectedMailbox, \* mails in UndetectedMailbox
    learnedInbox,      \* mails moved from HamMailbox to InboxMailbox
    learnedSpam,       \* mails moved from UndetectedMailbox to SpamMailbox
    \* --- iscan.Client
    spamTreshold,      \* Client.spamTreshold
    stopCh,            \* Client.stopCh is closed
    onceState,         \* Client.stopOnce: "fresh", "running", "done"
    wgRun,             \* Client.wgRun: its counter
    sessClosed,        \* the IMAP session was closed by imapclt.Client.Close
    \* --- the routine running Start (or, alone, ProcessScanBox)
    pc,                \* position of the routine
    phase,             \* caller of the running pass: "pass", "init", "timer", "event"
    lastLearnAt,       \* Start's lastLearnAt: 0 before it is set, else an instant
    lkind,             \* the running learn pass: "ham" or "spam"
    passResult,        \* result of ProcessScanBox: "none", "nil", "err"
    learnResult,       \* result of learn: "none", "nil", "err"
    startRes,          \* result of Start: "none", "nil", "err"
    todo,              \* Messages: messages the running fetch still delivers
    msg,               \* message yielded by Messages, Nil if none
    scannedMails,      \* ProcessScanBox: scannedMails
    errs,              \* ProcessScanBox: len(errs)
    replIdx,           \* replaceWithModifiedMails: index of the range loop
    replErrs,          \* replaceWithModifiedMails: len(errs)
    replResult,        \* result of replaceWithModifiedMails: "none", "nil", "err"
    learnedMsgUIDs,    \* learn: learnedMsgUIDs
    \* --- imapclt.Client and the Monitor call of the loop of Start
    chans,             \* [ChanIds -> [buf, closed]]: the event channels
    lastCh,            \* channel made by the last Monitor call
    newMessagesCh,     \* imapclt.Client.newMessagesCh, Nil for nil
    mu,                \* imapclt.Client.mu: "free" or "handler"
    idleActive,        \* an IDLE command is running on the session
    eventCh,           \* Start: eventCh
    stopKind,          \* Start: monitorCancelFn is the "noop" or the "idle" one
    branch,            \* Start: case taken by the select
    evA,               \* Start: NewMsgCount of the received event
    stopErr,           \* result of monitorCancelFn: "none", "nil", "err"
    \* --- mailboxUpdateHandler on the reader routine of the IMAP library
    hch,               \* channel the handler sends to
    hnum,              \* *d.NumMessages
    \* --- callers of Stop
    stopPc,            \* [Stoppers -> position]
    stopRes,           \* [Stoppers -> "none", "nil", "err"]: result of Stop
    \* --- observations
    moveOK,            \* running pass: mails whose Move to backup succeeded
    moveFailed,        \* running pass: mails whose Move failed
    uploadOK,          \* running pass: mails whose Upload succeeded
    uploadFailed,      \* running pass: mails whose Upload failed
    uploadLog,         \* every successful Upload: <<mail, mailbox, score>>
    lostCopies,        \* mails whose Upload failed, in any pass
    cmdDuringIdle,     \* an IMAP command was issued while IDLE was running
    opOnClosed,        \* an IMAP command was issued on the closed session
    sendOnClosed,      \* the handler sent on a closed channel
    cntCloseStopCh,    \* number of close(stopCh)
    cntSessClose,      \* number of imapclt.Client.Close calls
    faultsLeft,        \* failures that may still be injected, Unlimited if any
    \* --- malformed messages on the server
    malformed,         \* mails of ScanMailbox whose fetch result is malformed
    malformedLearn,    \* mails of the learn mailboxes that are malformed
    lastLearn,         \* last mail other clients deliver to a learn mailbox
    named,             \* Client.hamMailbox, Client.undetectedMailbox not ""
    now,               \* the instant time.Now() returns
    \* --- retry.Runner
    MaxRetriesSameError, \* Runner.MaxRetriesSameError
    RetryIntervals,    \* Runner.RetryIntervals
    failures,          \* Runner.failures
    lastError,         \* Runner.lastError: a root cause, Nil for nil
    rpc,               \* position of Run: "idle", "call", "sleep", "done"
    fnErr,             \* err of the last r.Fn(), NoErr for nil
    runResult,         \* what Run returned: [kind, err]
    calls,             \* invocations of r.Fn in the running Run
    sleeps,            \* durations slept in the running Run
    runs,              \* calls of Run on this Runner
    firstErr,          \* err of the first failure of the running Run
    allSame,           \* every failure of the running Run returned firstErr
    prevRoot,          \* root cause of the failure before, Nil if none
    allDiffer,         \* every failure so far was retryable and changed the root cause
    \* --- mail.AddHeaders
    apc,               \* position of AddHeaders
    orig,              \* bytes of the file at path
    orig0,             \* bytes of the file at path when AddHeaders was called
    hdrs,              \* the argument headers
    pos,               \* bytes of the file read so far
    buf,               \* addHeaders: buf after the loop
    tmpData,           \* bytes written to the temp file
    tmpFile,           \* temp file: "none", "open", "closed", "removed", "renamed"
    addResult,         \* "none", "nil", "notfound" (header end not found), "ioerr"
    \* --- mail.AsHeader
    asName,            \* argument name, as runs of equal characters
    asBody,            \* argument w, as runs of equal characters
    asResult,          \* what AsHeader returned: [err, line]
    \* --- iscan.NewClient
    cfg,               \* the argument *Config, TempDir as what os.Stat finds
    connTried,         \* imapclt.Connect was called
    newClientRes,      \* "none", "invalid", "connerr", "ok"
    \* --- rspamc.Client.Check and its caller
    rsp,               \* what the request meets: see Responses
    cpc,               \* "idle", "checked", "done"
    checkRes,          \* what Check returned
    filed,             \* where the caller files the mail: "none", "inbox", "spam"
    \* --- addScanResultHeaders
    symbols,           \* result.Symbols: score of each symbol of the verdict
    hdrMap,            \* header lines AsHeaders has still to range over
    hdrsData,          \* header lines AsHeaders has appended
    hpc,               \* "idle", "range", "done"
    \* --- temporary files of a ProcessScanBox pass
    keepTempFiles,     \* c.keepTempFiles
    tmpBox,            \* number of messages Messages can yield in the pass
    tmpFiles,          \* temp files on disk, by the UID in their name
    tmpCreated,        \* history: temp files os.CreateTemp has created
    tmpFailed,         \* history: the step that failed for the mail, or "none"
    tScanned,          \* scannedMails of the pass (UIDs)
    tIdx,              \* position of the range loop that is running
    tpc,               \* "idle", "fetch", "create", "scan", "replace", "upload", "done"
    \* --- rspamc.Client.sendRequest
    endpoint,          \* "checkv2" (Check), "learnham" (Ham), "learnspam" (Spam)
    sendErr,           \* the error sendRequest returned: see SendErrors
    spc,               \* "idle", "done"
    \* --- fetchNext: the envelope of the fetched message
    envTo,             \* msg.Envelope.To
    envCc,             \* msg.Envelope.Cc
    envBcc,            \* msg.Envelope.Bcc
    Recipients,        \* Envelope.Recipients of the Message that is yielded
    fpc                \* "idle", "done"

serverVars == <<scanMailbox, backupMailbox, inboxMailbox, spamMailbox, nextUID,
               lastUID>>
learnBoxVars == <<hamMailbox, undetectedMailbox, learnedInbox, learnedSpam>>
cltVars == <<spamTreshold, stopCh, onceState, wgRun, sessClosed>>
ctlVars == <<pc, phase, lastLearnAt, lkind, passResult, learnResult, startRes>>
passVars == <<todo, msg, scannedMails, errs>>
replVars == <<replIdx, replErrs, replResult>>
learnVars == <<learnedMsgUIDs>>
monVars == <<chans, lastCh, newMessagesCh, idleActive, eventCh, stopKind,
             branch, evA, stopErr>>
hVars == <<mu, hch, hnum, sendOnClosed>>
stopVars == <<stopPc, stopRes, cntCloseStopCh, cntSessClose>>
histVars == <<moveOK, moveFailed, uploadOK, uploadFailed>>
logVars == <<uploadLog, lostCopies>>
cmdVars == <<cmdDuringIdle, opOnClosed>>
envVars == <<malformed, malformedLearn, lastLearn, named, now>>
cfgVars == <<MaxRetriesSameError, RetryIntervals>>
retryVars == <<cfgVars, failures, lastError, rpc, fnErr, runResult, calls,
               sleeps, runs, firstErr, allSame, prevRoot, allDiffer>>
mailVars == <<apc, orig, orig0, hdrs, pos, buf, tmpData, tmpFile, addResult>>
asVars == <<asName, asBody, asResult>>
newVars == <<cfg, connTried, newClientRes>>
checkVars == <<rsp, cpc, checkRes, filed>>
hdrVars == <<symbols, hdrMap, hdrsData, hpc>>
tmpVars == <<keepTempFiles, tmpBox, tmpFiles, tmpCreated, tmpFailed, tScanned, tIdx, tpc>>
sendVars == <<endpoint, sendErr, spc>>
fetchVars == <<envTo, envCc, envBcc, Recipients, fpc>>
pkgVars == <<mailVars, asVars, newVars, checkVars, hdrVars, tmpVars, sendVars, fetchVars>>
otherVars == <<envVars, retryVars, pkgVars>>

vars == <<serverVars, learnBoxVars, cltVars, ctlVars, passVars, replVars,
          learnVars, monVars, hVars, stopVars, otherVars, histVars, logVars, cmdVars,
          faultsLeft>>

\* ---------------------------------------------------------------- helpers
Min(S) == CHOOSE x \in S : \A y \in S : x <= y

\* The server delivers the messages of a mailbox in ascending UID order.
RECURSIVE Ascending(_)
Ascending(S) == IF S = {} THEN <<>> ELSE <<Min(S)>> \o Ascending(S \ {Min(S)})

Range(s) == {s[i] : i \in 1..Len(s)}

Inc(f, m) == [f EXCEPT ![m] = @ + 1]

\* errors.Join(errs...): nil iff there is no error.
Join(n) == IF n = 0 THEN "nil" ELSE "err"

\* isSpam: r.Score >= c.spamTreshold
isSpamStrict(score) == score > spamTreshold
isSpam(score) == score >= spamTreshold

\* An IMAP command is issued on the session.
Imap ==
    /\ cmdDuringIdle' = (cmdDuringIdle \/ idleActive)
    /\ opOnClosed' = (opOnClosed \/ sessClosed)

\* A call fails because a failure is injected.
Fault ==
    /\ faultsLeft # 0
    /\ faultsLeft' = IF faultsLeft = Unlimited THEN faultsLeft ELSE faultsLeft - 1

\* An IMAP command succeeds: the session is open.
ImapOK == Imap /\ ~sessClosed /\ UNCHANGED faultsLeft

\* An IMAP command fails: the session is closed, or a failure is injected.
ImapFail == Imap /\ IF sessClosed THEN UNCHANGED faultsLeft ELSE Fault

\* ---------------------------------------------------------------- Init
InitServer ==
    /\ scanMailbox = {}
    /\ backupMailbox = [m \in Mails |-> 0]
    /\ inboxMailbox = [m \in Mails |-> 0]
    /\ spamMailbox = [m \in Mails |-> 0]
    /\ nextUID = 1
    /\ hamMailbox = {}
    /\ undetectedMailbox = {}
    /\ learnedInbox = {}
    /\ learnedSpam = {}

\* Config.validate: SpamTreshold must be > 0.
Tresholds == 1..MaxScore

\* NewClient
InitClient ==
    /\ stopCh = FALSE
    /\ onceState = "fresh"
    /\ wgRun = 0
    /\ sessClosed = FALSE
    /\ chans = [c \in ChanIds |-> [buf |-> <<>>, closed |-> TRUE]]
    /\ lastCh = 2
    /\ newMessagesCh = Nil
    /\ mu = "free"
    /\ idleActive = FALSE

InitLocals ==
    /\ lastLearnAt = 0
    /\ lkind = "ham"
    /\ passResult = "none"
    /\ learnResult = "none"
    /\ startRes = "none"
    /\ todo = <<>>
    /\ msg = Nil
    /\ scannedMails = <<>>
    /\ errs = 0
    /\ replIdx = 0
    /\ replErrs = 0
    /\ replResult = "none"
    /\ learnedMsgUIDs = <<>>
    /\ eventCh = Nil
    /\ stopKind = "noop"
    /\ branch = "none"
    /\ evA = 0
    /\ stopErr = "none"
    /\ hch = Nil
    /\ hnum = 0
    /\ stopPc = [t \in Stoppers |-> "idle"]
    /\ stopRes = [t \in Stoppers |-> "none"]

InitObs ==
    /\ moveOK = {}
    /\ moveFailed = {}
    /\ uploadOK = {}
    /\ uploadFailed = {}
    /\ uploadLog = {}
    /\ lostCopies = {}
    /\ cmdDuringIdle = FALSE
    /\ opOnClosed = FALSE
    /\ sendOnClosed = FALSE
    /\ cntCloseStopCh = 0
    /\ cntSessClose = 0

\* No message on the server is malformed.
InitEnv ==
    /\ malformed = {}
    /\ malformedLearn = {}
    /\ lastLearn = MaxStartLearn
    /\ named = [k \in {"ham", "spam"} |-> TRUE]
    /\ now = 1

\* The values an error is modelled by: its root cause, the number of
\* wrappers with an Unwrap method around that cause (with none it is the
\* cause itself), and what r.IsRetryable answers for it.
Causes == 1..MaxCauses
Errors == [root : Causes, layers : 0..MaxLayers, retryable : BOOLEAN]
NoErr == [root |-> Nil, layers |-> 0, retryable |-> FALSE]
NoResult == [kind |-> "none", err |-> NoErr]

\* A Runner as the composite literal leaves it, Run not called.
InitRunner ==
    /\ failures = 0
    /\ lastError = Nil
    /\ rpc = "idle"
    /\ fnErr = NoErr
    /\ runResult = NoResult
    /\ calls = 0
    /\ sleeps = <<>>
    /\ runs = 0
    /\ firstErr = NoErr
    /\ allSame = TRUE
    /\ prevRoot = Nil
    /\ allDiffer = TRUE

\* AddHeaders is not called.
InitAddIdle ==
    /\ apc = "idle"
    /\ orig = <<>>
    /\ orig0 = <<>>
    /\ hdrs = <<>>
    /\ pos = 0
    /\ buf = <<>>
    /\ tmpData = <<>>
    /\ tmpFile = "none"
    /\ addResult = "none"

\* AsHeader is not called.
NoLine == [err |-> "none", line |-> <<>>]
InitAsIdle ==
    /\ asName = <<>>
    /\ asBody = <<>>
    /\ asResult = NoLine

\* A valid configuration; NewClient is not called.
InitNewIdle ==
    /\ cfg = [BackupMailbox |-> "b", HamMailbox |-> "", InboxMailbox |-> "a",
              ScanMailbox |-> "b", SpamMailboxName |-> "",
              UndetectedMailboxName |-> "", SpamTreshold |-> 1,
              TempDir |-> "dir"]
    /\ connTried = FALSE
    /\ newClientRes = "none"

\* Check is not called.
NoCheck == [err |-> "none", result |-> "none", score |-> 0]
InitCheckIdle ==
    /\ rsp = [build |-> TRUE, transport |-> TRUE, status |-> 200,
              ctype |-> "application/json", decodes |-> TRUE, score |-> 0]
    /\ cpc = "idle"
    /\ checkRes = NoCheck
    /\ filed = "none"

\* addScanResultHeaders is not called.
InitHdrIdle ==
    /\ symbols = <<>>
    /\ hdrMap = {}
    /\ hdrsData = <<>>
    /\ hpc = "idle"

\* No ProcessScanBox pass spools mails to disk.
InitTmpIdle ==
    /\ keepTempFiles = FALSE
    /\ tmpBox = 0
    /\ tmpFiles = {}
    /\ tmpCreated = {}
    /\ tmpFailed = <<>>
    /\ tScanned = <<>>
    /\ tIdx = 0
    /\ tpc = "idle"

\* sendRequest is not called.
InitSendIdle ==
    /\ endpoint = "checkv2"
    /\ sendErr = [kind |-> "none", status |-> 0]
    /\ spc = "idle"

\* fetchNext is not called.
InitFetchIdle ==
    /\ envTo = <<>>
    /\ envCc = <<>>
    /\ envBcc = <<>>
    /\ Recipients = <<>>
    /\ fpc = "idle"

\* The functions of the packages beside the engine are not called.
InitNoPkg ==
    /\ InitAddIdle
    /\ InitAsIdle
    /\ InitNewIdle
    /\ InitCheckIdle
    /\ InitHdrIdle
    /\ InitTmpIdle
    /\ InitSendIdle
    /\ InitFetchIdle

\* The Runner of the specifications in which Run is not called.
InitNoRetry ==
    /\ InitEnv
    /\ InitRunner
    /\ InitNoPkg
    /\ MaxRetriesSameError = MaxRetries
    /\ RetryIntervals = <<MaxDuration>>

\* ---------------------------------------------------------------- server
\* Another client appends a mail to the scan mailbox.
Deliver ==
    /\ nextUID <= lastUID
    /\ scanMailbox' = scanMailbox \cup {nextUID}
    /\ nextUID' = nextUID + 1
    /\ UNCHANGED <<backupMailbox, inboxMailbox, spamMailbox, lastUID>>
    /\ UNCHANGED <<learnBoxVars, cltVars, ctlVars, passVars, replVars, learnVars,
                   monVars, hVars, stopVars, otherVars, histVars, logVars, cmdVars,
                   faultsLeft>>

\* ---------------------------------------------------------------- returns
\* A slip the timer case could have: ProcessHam and ProcessSpam are left out
\* after ProcessScanBox.
ReturnNoLearn(proc, r) ==
    IF phase = "pass"
      THEN /\ pc' = "idle"
           /\ UNCHANGED <<phase, lastLearnAt, lkind, startRes>>
      ELSE IF r = "err"
        THEN /\ pc' = "s_ret"
             /\ startRes' = "err"
             /\ UNCHANGED <<phase, lastLearnAt, lkind>>
        ELSE /\ UNCHANGED <<phase, startRes>>
             /\ lastLearnAt' = IF proc = "spam" THEN now
                                                ELSE lastLearnAt
             /\ pc' = CASE proc = "ham" -> "l_begin"
                        [] proc = "spam" /\ phase = "init" -> "p_begin"
                        [] OTHER -> "m_select"
             /\ lkind' = CASE proc = "ham" -> "spam"
                          [] OTHER -> lkind

\* Variant: Start goes on with the next step after an error.
ReturnGoesOn(proc, r) ==
    IF phase = "pass"
      THEN /\ pc' = "idle"
           /\ UNCHANGED <<phase, lastLearnAt, lkind, startRes>>
      ELSE /\ UNCHANGED <<phase, startRes>>
           /\ lastLearnAt' = IF proc = "spam" THEN now
                                              ELSE lastLearnAt
           /\ pc' = CASE proc = "ham" -> "l_begin"
                      [] proc = "spam" /\ phase = "init" -> "p_begin"
                      [] proc = "spam" /\ phase # "init" -> "m_select"
                      [] proc = "scan" /\ phase = "timer" -> "l_begin"
                      [] OTHER -> "m_select"
           /\ lkind' = CASE proc = "ham" -> "spam"
                        [] proc = "scan" /\ phase = "timer" -> "ham"
                        [] OTHER -> lkind

\* Variant: lastLearnAt is set when the scan of the timer case has returned.
ReturnStampsEarly(proc, r) ==
    IF phase = "pass"
      THEN /\ pc' = "idle"
           /\ UNCHANGED <<phase, lastLearnAt, lkind, startRes>>
      ELSE IF r = "err"
        THEN /\ pc' = "s_ret"
             /\ startRes' = "err"
             /\ UNCHANGED <<phase, lastLearnAt, lkind>>
        ELSE /\ UNCHANGED <<phase, startRes>>
             /\ lastLearnAt' = IF proc = "spam" \/ (proc = "scan" /\ phase = "timer")
                                 THEN now
                                 ELSE lastLearnAt
             /\ pc' = CASE proc = "ham" -> "l_begin"
                        [] proc = "spam" /\ phase = "init" -> "p_begin"
                        [] proc = "spam" /\ phase # "init" -> "m_select"
                        [] proc = "scan" /\ phase = "timer" -> "l_begin"
                        [] OTHER -> "m_select"
             /\ lkind' = CASE proc = "ham" -> "spam"
                          [] proc = "scan" /\ phase = "timer" -> "ham"
                          [] OTHER -> lkind

\* The routine returns from ProcessHam ("ham"), ProcessSpam ("spam") or
\* ProcessScanBox ("scan") with result r, to where Start called it.
Return(proc, r) ==
    IF phase = "pass"
      THEN /\ pc' = "idle"
           /\ UNCHANGED <<phase, lastLearnAt, lkind, startRes>>
      ELSE IF r = "err"
        THEN /\ pc' = "s_ret"
             /\ startRes' = "err"
             /\ UNCHANGED <<phase, lastLearnAt, lkind>>
        ELSE /\ UNCHANGED <<phase, startRes>>
             /\ lastLearnAt' = IF proc = "spam" THEN now
                                                ELSE lastLearnAt
             /\ pc' = CASE proc = "ham" -> "l_begin"
                        [] proc = "spam" /\ phase = "init" -> "p_begin"
                        [] proc = "spam" /\ phase # "init" -> "m_select"
                        [] proc = "scan" /\ phase = "timer" -> "l_begin"
                        [] OTHER -> "m_select"
             /\ lkind' = CASE proc = "ham" -> "spam"
                          [] proc = "scan" /\ phase = "timer" -> "ham"
                          [] OTHER -> lkind

\* ---------------------------------------------------------------- ProcessScanBox
notPass == <<learnBoxVars, cltVars, learnVars, monVars, hVars, stopVars, otherVars>>
ctlRest == <<phase, lastLearnAt, lkind, passResult, learnResult, startRes>>

\* ProcessScanBox is entered.
PassBegin ==
    /\ pc = "p_begin"
    /\ pc' = "p_select"
    /\ todo' = <<>>
    /\ msg' = Nil
    /\ scannedMails' = <<>>
    /\ errs' = 0
    /\ UNCHANGED <<serverVars, notPass, ctlRest, replVars, histVars, logVars,
                   cmdVars, faultsLeft>>

\* Messages: Select succeeds and the Fetch of all messages is issued.  An
\* empty mailbox ends the iteration at once.
PassSelectOK ==
    /\ pc = "p_select"
    /\ ImapOK
    /\ todo' = Ascending(scanMailbox)
    /\ pc' = IF scanMailbox = {} THEN "r_begin" ELSE "p_fetch"
    /\ UNCHANGED <<msg, scannedMails, errs>>
    /\ UNCHANGED <<serverVars, notPass, ctlRest, replVars, histVars, logVars>>

\* Messages: Select fails, the iterator yields the error and ProcessScanBox
\* returns it at once.
PassSelectFail ==
    /\ pc = "p_select"
    /\ ImapFail
    /\ passResult' = "err"
    /\ pc' = "p_exit"
    /\ UNCHANGED <<phase, lastLearnAt, lkind, learnResult, startRes>>
    /\ UNCHANGED <<serverVars, notPass, passVars, replVars, histVars, logVars>>

\* fetchNext yields the next message.
PassFetchOK ==
    /\ pc = "p_fetch"
    /\ todo # <<>>
    /\ Head(todo) \notin malformed
    /\ ImapOK
    /\ msg' = Head(todo)
    /\ todo' = Tail(todo)
    /\ pc' = "p_scan"
    /\ UNCHANGED <<scannedMails, errs>>
    /\ UNCHANGED <<serverVars, notPass, ctlRest, replVars, histVars, logVars>>

\* fetchNext returns nil, nil: the iteration is over.
PassFetchEnd ==
    /\ pc = "p_fetch"
    /\ todo = <<>>
    /\ pc' = "r_begin"
    /\ UNCHANGED <<serverVars, notPass, ctlRest, passVars, replVars, histVars,
                   logVars, cmdVars, faultsLeft>>

\* fetchNext yields an error: ProcessScanBox returns it at once, without
\* calling replaceWithModifiedMails.
PassFetchFail ==
    /\ pc = "p_fetch"
    /\ todo # <<>>
    /\ ImapFail
    /\ passResult' = "err"
    /\ pc' = "p_exit"
    /\ UNCHANGED <<phase, lastLearnAt, lkind, learnResult, startRes>>
    /\ UNCHANGED <<serverVars, notPass, passVars, replVars, histVars, logVars>>

\* fetchNext finds the next message malformed (no envelope, UID 0, no or an
\* empty body) and returns an ErrMalformedMsg; ProcessScanBox treats it as
\* any error of the iteration and returns at once.
PassFetchMalformed ==
    /\ pc = "p_fetch"
    /\ todo # <<>>
    /\ Head(todo) \in malformed
    /\ ImapOK
    /\ passResult' = "err"
    /\ pc' = "p_exit"
    /\ UNCHANGED <<phase, lastLearnAt, lkind, learnResult, startRes>>
    /\ UNCHANGED <<serverVars, notPass, passVars, replVars, histVars, logVars>>

\* downloadAndScan succeeds: Check reports a score.
PassScanOK ==
    /\ pc = "p_scan"
    /\ \E s \in Scores :
         scannedMails' = Append(scannedMails, [UID |-> msg, Score |-> s])
    /\ pc' = "p_fetch"
    /\ UNCHANGED <<todo, msg, errs>>
    /\ UNCHANGED <<serverVars, notPass, ctlRest, replVars, histVars, logVars,
                   cmdVars, faultsLeft>>

\* Variant: the message whose scan failed is kept as scanned, with score 0.
PassScanFailKept ==
    /\ pc = "p_scan"
    /\ Fault
    /\ errs' = errs + 1
    /\ scannedMails' = Append(scannedMails, [UID |-> msg, Score |-> 0])
    /\ pc' = "r_begin"
    /\ UNCHANGED <<todo, msg>>
    /\ UNCHANGED <<serverVars, notPass, ctlRest, replVars, histVars, logVars,
                   cmdVars>>

\* downloadAndScan fails (temp file, Check, header insertion): the error is
\* kept and the loop is left.
PassScanFail ==
    /\ pc = "p_scan"
    /\ Fault
    /\ errs' = errs + 1
    /\ pc' = "r_begin"
    /\ UNCHANGED <<todo, msg, scannedMails>>
    /\ UNCHANGED <<serverVars, notPass, ctlRest, replVars, histVars, logVars,
                   cmdVars>>

\* ---------------------------------------------------------------- replaceWithModifiedMails
ReplMail == scannedMails[replIdx]

\* replaceWithModifiedMails(scannedMails) is called.
ReplBegin ==
    /\ pc = "r_begin"
    /\ replIdx' = 1
    /\ replErrs' = 0
    /\ replResult' = "none"
    /\ moveOK' = {}
    /\ moveFailed' = {}
    /\ uploadOK' = {}
    /\ uploadFailed' = {}
    /\ pc' = "r_move"
    /\ UNCHANGED <<serverVars, notPass, ctlRest, passVars, logVars, cmdVars,
                   faultsLeft>>

\* The Move of the mail to the backup mailbox succeeds.
ReplMoveOK ==
    /\ pc = "r_move"
    /\ replIdx <= Len(scannedMails)
    /\ ImapOK
    /\ scanMailbox' = scanMailbox \ {ReplMail.UID}
    /\ backupMailbox' = IF ReplMail.UID \in scanMailbox
                          THEN Inc(backupMailbox, ReplMail.UID)
                          ELSE backupMailbox
    /\ moveOK' = moveOK \cup {ReplMail.UID}
    /\ pc' = "r_upload"
    /\ UNCHANGED <<inboxMailbox, spamMailbox, nextUID, lastUID>>
    /\ UNCHANGED <<moveFailed, uploadOK, uploadFailed>>
    /\ UNCHANGED <<notPass, ctlRest, passVars, replVars, logVars>>

\* A slip the backup step could have: the mail leaves the scan mailbox
\* although the Move failed.
ReplMoveFailLossy ==
    /\ pc = "r_move"
    /\ replIdx <= Len(scannedMails)
    /\ ImapFail
    /\ scanMailbox' = scanMailbox \ {ReplMail.UID}
    /\ replErrs' = replErrs + 1
    /\ moveFailed' = moveFailed \cup {ReplMail.UID}
    /\ replIdx' = replIdx + 1
    /\ pc' = "r_move"
    /\ UNCHANGED <<backupMailbox, inboxMailbox, spamMailbox, nextUID, lastUID>>
    /\ UNCHANGED <<replResult, moveOK, uploadOK, uploadFailed>>
    /\ UNCHANGED <<notPass, ctlRest, passVars, logVars>>

\* A slip the backup step could have: the continue is missing and the Upload
\* is issued although the Move failed.
ReplMoveFailNoContinue ==
    /\ pc = "r_move"
    /\ replIdx <= Len(scannedMails)
    /\ ImapFail
    /\ replErrs' = replErrs + 1
    /\ moveFailed' = moveFailed \cup {ReplMail.UID}
    /\ pc' = "r_upload"
    /\ UNCHANGED <<replIdx, replResult, moveOK, uploadOK, uploadFailed>>
    /\ UNCHANGED <<serverVars, notPass, ctlRest, passVars, logVars>>

\* The Move fails: the error is kept and the mail is skipped.
ReplMoveFail ==
    /\ pc = "r_move"
    /\ replIdx <= Len(scannedMails)
    /\ ImapFail
    /\ replErrs' = replErrs + 1
    /\ moveFailed' = moveFailed \cup {ReplMail.UID}
    /\ replIdx' = replIdx + 1
    /\ pc' = "r_move"
    /\ UNCHANGED <<replResult, moveOK, uploadOK, uploadFailed>>
    /\ UNCHANGED <<serverVars, notPass, ctlRest, passVars, logVars>>

\* The mailbox the annotated copy goes to.
UploadMbox(score) == IF isSpam(score) THEN "spam" ELSE "inbox"

\* A slip the upload step could have: the copy is appended a second time.
ReplUploadOKTwice ==
    /\ pc = "r_upload"
    /\ ImapOK
    /\ LET mbox == UploadMbox(ReplMail.Score) IN
         /\ spamMailbox' = IF mbox = "spam"
                             THEN Inc(Inc(spamMailbox, ReplMail.UID), ReplMail.UID)
                             ELSE spamMailbox
         /\ inboxMailbox' = IF mbox = "inbox"
                              THEN Inc(Inc(inboxMailbox, ReplMail.UID), ReplMail.UID)
                              ELSE inboxMailbox
         /\ uploadLog' = uploadLog \cup {<<ReplMail.UID, mbox, ReplMail.Score>>}
    /\ uploadOK' = uploadOK \cup {ReplMail.UID}
    /\ replIdx' = replIdx + 1
    /\ pc' = "r_move"
    /\ UNCHANGED <<scanMailbox, backupMailbox, nextUID, lastUID>>
    /\ UNCHANGED <<replErrs, replResult, moveOK, moveFailed, uploadFailed,
                   lostCopies>>
    /\ UNCHANGED <<notPass, ctlRest, passVars>>

\* The Upload of the annotated copy succeeds.
ReplUploadOK ==
    /\ pc = "r_upload"
    /\ ImapOK
    /\ LET mbox == UploadMbox(ReplMail.Score) IN
         /\ spamMailbox' = IF mbox = "spam"
                             THEN Inc(spamMailbox, ReplMail.UID) ELSE spamMailbox
         /\ inboxMailbox' = IF mbox = "inbox"
                              THEN Inc(inboxMailbox, ReplMail.UID) ELSE inboxMailbox
         /\ uploadLog' = uploadLog \cup {<<ReplMail.UID, mbox, ReplMail.Score>>}
    /\ uploadOK' = uploadOK \cup {ReplMail.UID}
    /\ replIdx' = replIdx + 1
    /\ pc' = "r_move"
    /\ UNCHANGED <<scanMailbox, backupMailbox, nextUID, lastUID>>
    /\ UNCHANGED <<replErrs, replResult, moveOK, moveFailed, uploadFailed,
                   lostCopies>>
    /\ UNCHANGED <<notPass, ctlRest, passVars>>

\* A slip the upload step could have: the failure ends the loop.
ReplUploadFailAbort ==
    /\ pc = "r_upload"
    /\ ImapFail
    /\ replErrs' = replErrs + 1
    /\ uploadFailed' = uploadFailed \cup {ReplMail.UID}
    /\ lostCopies' = lostCopies \cup {ReplMail.UID}
    /\ replIdx' = Len(scannedMails) + 1
    /\ pc' = "r_move"
    /\ UNCHANGED <<replResult, moveOK, moveFailed, uploadOK, uploadLog>>
    /\ UNCHANGED <<serverVars, notPass, ctlRest, passVars>>

\* The Upload fails: the error is kept, the original stays in the backup
\* mailbox and the loop goes on with the next mail.
ReplUploadFail ==
    /\ pc = "r_upload"
    /\ ImapFail
    /\ replErrs' = replErrs + 1
    /\ uploadFailed' = uploadFailed \cup {ReplMail.UID}
    /\ lostCopies' = lostCopies \cup {ReplMail.UID}
    /\ replIdx' = replIdx + 1
    /\ pc' = "r_move"
    /\ UNCHANGED <<replResult, moveOK, moveFailed, uploadOK, uploadLog>>
    /\ UNCHANGED <<serverVars, notPass, ctlRest, passVars>>

\* The loop of replaceWithModifiedMails is over: it returns errors.Join(errs...).
ReplEnd ==
    /\ pc = "r_move"
    /\ replIdx > Len(scannedMails)
    /\ replResult' = Join(replErrs)
    /\ pc' = "p_return"
    /\ UNCHANGED <<replIdx, replErrs>>
    /\ UNCHANGED <<serverVars, notPass, ctlRest, passVars, histVars, logVars,
                   cmdVars, faultsLeft>>

\* ProcessScanBox appends the error of replaceWithModifiedMails to its own
\* errors and returns their join.
PassEnd ==
    /\ pc = "p_return"
    /\ passResult' = Join(errs + (IF replResult = "err" THEN 1 ELSE 0))
    /\ pc' = "p_exit"
    /\ UNCHANGED <<phase, lastLearnAt, lkind, learnResult, startRes>>
    /\ UNCHANGED <<serverVars, notPass, passVars, replVars, histVars, logVars,
                   cmdVars, faultsLeft>>

\* ProcessScanBox returns to its caller; its locals are gone.
PassExit ==
    /\ pc = "p_exit"
    /\ Return("scan", passResult)
    /\ todo' = <<>>
    /\ msg' = Nil
    /\ scannedMails' = <<>>
    /\ errs' = 0
    /\ replIdx' = 0
    /\ replErrs' = 0
    /\ replResult' = "none"
    /\ moveOK' = {}
    /\ moveFailed' = {}
    /\ uploadOK' = {}
    /\ uploadFailed' = {}
    /\ UNCHANGED <<passResult, learnResult>>
    /\ UNCHANGED <<serverVars, notPass, logVars, cmdVars, faultsLeft>>

PassNext ==
    \/ PassBegin
    \/ PassSelectOK \/ PassSelectFail
    \/ PassFetchOK \/ PassFetchEnd \/ PassFetchFail
    \/ PassScanOK \/ PassScanFail
    \/ ReplBegin
    \/ ReplMoveOK \/ ReplMoveFail
    \/ ReplUploadOK \/ ReplUploadFail
    \/ ReplEnd \/ PassEnd \/ PassExit

\* ---------------------------------------------------------------- scan passes alone
\* A caller runs ProcessScanBox again.
RunPass ==
    /\ pc = "idle"
    /\ pc' = "p_begin"
    /\ UNCHANGED <<serverVars, notPass, ctlRest, passVars, replVars, histVars,
                   logVars, cmdVars, faultsLeft>>

InitScan ==
    /\ InitServer /\ InitClient /\ InitLocals /\ InitObs /\ InitNoRetry
    /\ pc = "idle"
    /\ phase = "pass"
    /\ spamTreshold \in Tresholds
    /\ lastUID = MaxMails
    /\ faultsLeft = Unlimited

NextScan == Deliver \/ RunPass \/ PassNext

\* Repeated crash-free ProcessScanBox passes while mails are delivered; every
\* call may fail.
SpecScan == InitScan /\ [][NextScan]_vars

\* The same with a bounded number of failures.
InitScanFair ==
    /\ InitServer /\ InitClient /\ InitLocals /\ InitObs /\ InitNoRetry
    /\ pc = "idle"
    /\ phase = "pass"
    /\ spamTreshold \in Tresholds
    /\ lastUID = MaxMails
    /\ faultsLeft = MaxFaults

\* The caller keeps running passes and no step of a pass hangs.
FairScan == InitScanFair /\ [][NextScan]_vars /\ WF_vars(RunPass \/ PassNext)

\* ---------------------------------------------------------------- learn
notLearn == <<cltVars, replVars, monVars, hVars, stopVars, otherVars, histVars, logVars>>
LearnSrc == IF lkind = "ham" THEN hamMailbox ELSE undetectedMailbox
LearnFresh(src, dest) == LearnMails \ (src \cup dest)

\* Another client puts a mail into the ham mailbox.
DeliverHam ==
    /\ LearnFresh(hamMailbox, learnedInbox) # {}
    /\ Min(LearnFresh(hamMailbox, learnedInbox)) <= lastLearn
    /\ hamMailbox' = hamMailbox \cup {Min(LearnFresh(hamMailbox, learnedInbox))}
    /\ UNCHANGED <<undetectedMailbox, learnedInbox, learnedSpam>>
    /\ UNCHANGED <<serverVars, cltVars, ctlVars, passVars, replVars, learnVars,
                   monVars, hVars, stopVars, otherVars, histVars, logVars, cmdVars,
                   faultsLeft>>

\* Another client puts a mail into the undetected mailbox.
DeliverUndetected ==
    /\ LearnFresh(undetectedMailbox, learnedSpam) # {}
    /\ Min(LearnFresh(undetectedMailbox, learnedSpam)) <= lastLearn
    /\ undetectedMailbox' =
         undetectedMailbox \cup {Min(LearnFresh(undetectedMailbox, learnedSpam))}
    /\ UNCHANGED <<hamMailbox, learnedInbox, learnedSpam>>
    /\ UNCHANGED <<serverVars, cltVars, ctlVars, passVars, replVars, learnVars,
                   monVars, hVars, stopVars, otherVars, histVars, logVars, cmdVars,
                   faultsLeft>>

\* ProcessHam or ProcessSpam calls learn.
LearnBegin ==
    /\ pc = "l_begin"
    /\ pc' = "l_select"
    /\ learnedMsgUIDs' = <<>>
    /\ UNCHANGED <<serverVars, learnBoxVars, notLearn, ctlRest, passVars,
                   cmdVars, faultsLeft>>

\* Messages: Select succeeds and the Fetch of all messages is issued.
LearnSelectOK ==
    /\ pc = "l_select"
    /\ ImapOK
    /\ todo' = Ascending(LearnSrc)
    /\ pc' = IF LearnSrc = {} THEN "l_after" ELSE "l_fetch"
    /\ UNCHANGED <<msg, scannedMails, errs>>
    /\ UNCHANGED <<serverVars, learnBoxVars, notLearn, ctlRest, learnVars>>

\* Messages: Select fails and learn returns the error.
LearnSelectFail ==
    /\ pc = "l_select"
    /\ ImapFail
    /\ learnResult' = "err"
    /\ pc' = "l_exit"
    /\ UNCHANGED <<phase, lastLearnAt, lkind, passResult, startRes>>
    /\ UNCHANGED <<serverVars, learnBoxVars, notLearn, passVars, learnVars>>

\* fetchNext yields the next message.
LearnFetchOK ==
    /\ pc = "l_fetch"
    /\ todo # <<>>
    /\ Head(todo) \notin malformedLearn
    /\ ImapOK
    /\ msg' = Head(todo)
    /\ todo' = Tail(todo)
    /\ pc' = "l_learn"
    /\ UNCHANGED <<scannedMails, errs>>
    /\ UNCHANGED <<serverVars, learnBoxVars, notLearn, ctlRest, learnVars>>

\* fetchNext returns nil, nil: the iteration is over.
LearnFetchEnd ==
    /\ pc = "l_fetch"
    /\ todo = <<>>
    /\ pc' = "l_after"
    /\ UNCHANGED <<serverVars, learnBoxVars, notLearn, ctlRest, passVars,
                   learnVars, cmdVars, faultsLeft>>

\* fetchNext yields an error and learn returns it.
LearnFetchFail ==
    /\ pc = "l_fetch"
    /\ todo # <<>>
    /\ ImapFail
    /\ learnResult' = "err"
    /\ pc' = "l_exit"
    /\ UNCHANGED <<phase, lastLearnAt, lkind, passResult, startRes>>
    /\ UNCHANGED <<serverVars, learnBoxVars, notLearn, passVars, learnVars>>

\* fetchNext finds the next message malformed and returns an
\* ErrMalformedMsg; learn returns the error.
LearnFetchMalformed ==
    /\ pc = "l_fetch"
    /\ todo # <<>>
    /\ Head(todo) \in malformedLearn
    /\ ImapOK
    /\ learnResult' = "err"
    /\ pc' = "l_exit"
    /\ UNCHANGED <<phase, lastLearnAt, lkind, passResult, startRes>>
    /\ UNCHANGED <<serverVars, learnBoxVars, notLearn, passVars, learnVars>>

\* learnFn succeeds: the UID is kept.
LearnFnOK ==
    /\ pc = "l_learn"
    /\ learnedMsgUIDs' = Append(learnedMsgUIDs, msg)
    /\ pc' = "l_fetch"
    /\ UNCHANGED <<serverVars, learnBoxVars, notLearn, ctlRest, passVars,
                   cmdVars, faultsLeft>>

\* Variant: the messages learned before the failure are moved.
LearnFnFailMoves ==
    /\ pc = "l_learn"
    /\ Fault
    /\ IF lkind = "ham"
         THEN /\ hamMailbox' = hamMailbox \ Range(learnedMsgUIDs)
              /\ learnedInbox' = learnedInbox \cup Range(learnedMsgUIDs)
              /\ UNCHANGED <<undetectedMailbox, learnedSpam>>
         ELSE /\ undetectedMailbox' = undetectedMailbox \ Range(learnedMsgUIDs)
              /\ learnedSpam' = learnedSpam \cup Range(learnedMsgUIDs)
              /\ UNCHANGED <<hamMailbox, learnedInbox>>
    /\ learnResult' = "nil"
    /\ pc' = "l_exit"
    /\ UNCHANGED <<phase, lastLearnAt, lkind, passResult, startRes>>
    /\ UNCHANGED <<serverVars, notLearn, passVars, learnVars, cmdVars>>

\* learnFn fails: learn logs a warning and returns nil without any Move.
LearnFnFail ==
    /\ pc = "l_learn"
    /\ Fault
    /\ learnResult' = "nil"
    /\ pc' = "l_exit"
    /\ UNCHANGED <<phase, lastLearnAt, lkind, passResult, startRes>>
    /\ UNCHANGED <<serverVars, learnBoxVars, notLearn, passVars, learnVars,
                   cmdVars>>

\* Nothing was learned: learn returns nil.
LearnNoMove ==
    /\ pc = "l_after"
    /\ learnedMsgUIDs = <<>>
    /\ learnResult' = "nil"
    /\ pc' = "l_exit"
    /\ UNCHANGED <<phase, lastLearnAt, lkind, passResult, startRes>>
    /\ UNCHANGED <<serverVars, learnBoxVars, notLearn, passVars, learnVars,
                   cmdVars, faultsLeft>>

\* Variant: only the first learned message is moved.
LearnMoveOKFirst ==
    /\ pc = "l_after"
    /\ learnedMsgUIDs # <<>>
    /\ ImapOK
    /\ IF lkind = "ham"
         THEN /\ hamMailbox' = hamMailbox \ {Head(learnedMsgUIDs)}
              /\ learnedInbox' = learnedInbox \cup {Head(learnedMsgUIDs)}
              /\ UNCHANGED <<undetectedMailbox, learnedSpam>>
         ELSE /\ undetectedMailbox' = undetectedMailbox \ {Head(learnedMsgUIDs)}
              /\ learnedSpam' = learnedSpam \cup {Head(learnedMsgUIDs)}
              /\ UNCHANGED <<hamMailbox, learnedInbox>>
    /\ learnResult' = "nil"
    /\ pc' = "l_exit"
    /\ UNCHANGED <<phase, lastLearnAt, lkind, passResult, startRes>>
    /\ UNCHANGED <<serverVars, notLearn, passVars, learnVars>>

\* The Move of all learned messages to the destination succeeds.
LearnMoveOK ==
    /\ pc = "l_after"
    /\ learnedMsgUIDs # <<>>
    /\ ImapOK
    /\ IF lkind = "ham"
         THEN /\ hamMailbox' = hamMailbox \ Range(learnedMsgUIDs)
              /\ learnedInbox' =
                   learnedInbox \cup (Range(learnedMsgUIDs) \cap hamMailbox)
              /\ UNCHANGED <<undetectedMailbox, learnedSpam>>
         ELSE /\ undetectedMailbox' = undetectedMailbox \ Range(learnedMsgUIDs)
              /\ learnedSpam' =
                   learnedSpam \cup (Range(learnedMsgUIDs) \cap undetectedMailbox)
              /\ UNCHANGED <<hamMailbox, learnedInbox>>
    /\ learnResult' = "nil"
    /\ pc' = "l_exit"
    /\ UNCHANGED <<phase, lastLearnAt, lkind, passResult, startRes>>
    /\ UNCHANGED <<serverVars, notLearn, passVars, learnVars>>

\* The Move fails and learn returns the error.
LearnMoveFail ==
    /\ pc = "l_after"
    /\ learnedMsgUIDs # <<>>
    /\ ImapFail
    /\ learnResult' = "err"
    /\ pc' = "l_exit"
    /\ UNCHANGED <<phase, lastLearnAt, lkind, passResult, startRes>>
    /\ UNCHANGED <<serverVars, learnBoxVars, notLearn, passVars, learnVars>>

\* ProcessHam or ProcessSpam returns to Start; the locals of learn are gone.
LearnExit ==
    /\ pc = "l_exit"
    /\ Return(lkind, learnResult)
    /\ todo' = <<>>
    /\ msg' = Nil
    /\ learnedMsgUIDs' = <<>>
    /\ UNCHANGED <<scannedMails, errs, passResult, learnResult>>
    /\ UNCHANGED <<serverVars, learnBoxVars, notLearn, cmdVars, faultsLeft>>

LearnNext ==
    \/ LearnBegin
    \/ LearnSelectOK \/ LearnSelectFail
    \/ LearnFetchOK \/ LearnFetchEnd \/ LearnFetchFail
    \/ LearnFnOK \/ LearnFnFail
    \/ LearnNoMove \/ LearnMoveOK \/ LearnMoveFail
    \/ LearnExit

\* ---------------------------------------------------------------- Start
notMon == <<serverVars, learnBoxVars, passVars, replVars, learnVars,
            stopVars, otherVars, histVars, logVars>>
cltRest == <<spamTreshold, stopCh, onceState, sessClosed>>
startLocals == <<eventCh, stopKind, branch, evA, stopErr>>

\* Start: c.wgRun.Add(1), then ProcessHam.
StartAdd ==
    /\ pc = "s_add"
    /\ wgRun' = wgRun + 1
    /\ pc' = "l_begin"
    /\ lkind' = "ham"
    /\ phase' = "init"
    /\ UNCHANGED lastLearnAt
    /\ UNCHANGED <<passResult, learnResult, startRes, cltRest, monVars, hVars,
                   notMon, cmdVars, faultsLeft>>

\* Start returns: the deferred c.wgRun.Done().
StartReturn ==
    /\ pc = "s_ret"
    /\ wgRun' = wgRun - 1
    /\ pc' = "done"
    /\ UNCHANGED <<ctlRest, cltRest, monVars, hVars, notMon, cmdVars,
                   faultsLeft>>

\* ---------------------------------------------------------------- Monitor
\* Variant: the channel of a mailbox that has messages is closed without
\* its event.
MonSelectOKNoEvent ==
    /\ pc = "m_select"
    /\ ImapOK
    /\ LET c == 3 - lastCh
           n == Cardinality(scanMailbox)
       IN  /\ lastCh' = c
           /\ IF n # 0
                THEN /\ chans' = [chans EXCEPT
                                    ![c] = [buf |-> <<>>, closed |-> TRUE],
                                    ![lastCh] = [buf |-> <<>>, closed |-> TRUE]]
                     /\ eventCh' = c
                     /\ stopKind' = "noop"
                     /\ pc' = "s_select"
                ELSE /\ chans' = [chans EXCEPT
                                    ![c] = [buf |-> <<>>, closed |-> FALSE],
                                    ![lastCh] = [buf |-> <<>>, closed |-> TRUE]]
                     /\ pc' = "m_setch"
                     /\ UNCHANGED <<eventCh, stopKind>>
    /\ UNCHANGED <<newMessagesCh, idleActive, branch, evA, stopErr>>
    /\ UNCHANGED <<ctlRest, cltVars, hVars, notMon>>

\* Monitor makes the channel and selects the mailbox.  A mailbox that has
\* messages gets its event and a closed channel at once, and a stop function
\* that does nothing.  The channel of the call before, to which nothing
\* refers any more, is gone.
MonSelectOK ==
    /\ pc = "m_select"
    /\ ImapOK
    /\ LET c == 3 - lastCh
           n == Cardinality(scanMailbox)
       IN  /\ lastCh' = c
           /\ IF n # 0
                THEN /\ chans' = [chans EXCEPT
                                    ![c] = [buf |-> <<n>>, closed |-> TRUE],
                                    ![lastCh] = [buf |-> <<>>, closed |-> TRUE]]
                     /\ eventCh' = c
                     /\ stopKind' = "noop"
                     /\ pc' = "s_select"
                ELSE /\ chans' = [chans EXCEPT
                                    ![c] = [buf |-> <<>>, closed |-> FALSE],
                                    ![lastCh] = [buf |-> <<>>, closed |-> TRUE]]
                     /\ pc' = "m_setch"
                     /\ UNCHANGED <<eventCh, stopKind>>
    /\ UNCHANGED <<newMessagesCh, idleActive, branch, evA, stopErr>>
    /\ UNCHANGED <<ctlRest, cltVars, hVars, notMon>>

\* The Select of Monitor fails: Start returns the error.
MonSelectFail ==
    /\ pc = "m_select"
    /\ ImapFail
    /\ startRes' = "err"
    /\ pc' = "s_ret"
    /\ UNCHANGED <<phase, lastLearnAt, lkind, passResult, learnResult>>
    /\ UNCHANGED <<cltVars, monVars, hVars, notMon>>

\* c.setNewMessagesCH(ch)
MonSetCh ==
    /\ pc = "m_setch"
    /\ mu = "free"
    /\ newMessagesCh' = lastCh
    /\ pc' = "m_idle"
    /\ UNCHANGED <<chans, lastCh, idleActive, startLocals>>
    /\ UNCHANGED <<ctlRest, cltVars, hVars, notMon, cmdVars, faultsLeft>>

\* c.clt.Idle() succeeds; Monitor returns the channel and the stop function.
MonIdleOK ==
    /\ pc = "m_idle"
    /\ ImapOK
    /\ idleActive' = TRUE
    /\ eventCh' = lastCh
    /\ stopKind' = "idle"
    /\ pc' = "s_select"
    /\ UNCHANGED <<chans, lastCh, newMessagesCh, branch, evA, stopErr>>
    /\ UNCHANGED <<ctlRest, cltVars, hVars, notMon>>

\* c.clt.Idle() fails.
MonIdleFail ==
    /\ pc = "m_idle"
    /\ ImapFail
    /\ pc' = "m_unset"
    /\ UNCHANGED <<ctlRest, cltVars, monVars, hVars, notMon>>

\* c.setNewMessagesCH(nil) after the failed Idle.
MonIdleFailUnset ==
    /\ pc = "m_unset"
    /\ mu = "free"
    /\ newMessagesCh' = Nil
    /\ pc' = "m_close"
    /\ UNCHANGED <<chans, lastCh, idleActive, startLocals>>
    /\ UNCHANGED <<ctlRest, cltVars, hVars, notMon, cmdVars, faultsLeft>>

\* close(ch) after the failed Idle; Monitor and Start return the error.
MonIdleFailClose ==
    /\ pc = "m_close"
    /\ chans' = [chans EXCEPT ![lastCh].closed = TRUE]
    /\ startRes' = "err"
    /\ pc' = "s_ret"
    /\ UNCHANGED <<phase, lastLearnAt, lkind, passResult, learnResult>>
    /\ UNCHANGED <<lastCh, newMessagesCh, idleActive, startLocals>>
    /\ UNCHANGED <<cltVars, hVars, notMon, cmdVars, faultsLeft>>

MonitorNext ==
    \/ MonSelectOK \/ MonSelectFail
    \/ MonSetCh
    \/ MonIdleOK \/ MonIdleFail \/ MonIdleFailUnset \/ MonIdleFailClose

\* ---------------------------------------------------------------- select
\* The select of Start takes one of its ready cases.  The case of a closed
\* and empty event channel is never ready: Monitor closes a channel only
\* behind its buffered event, and otherwise only the stop function does.
monRest == <<lastCh, newMessagesCh, idleActive, eventCh, stopKind>>

\* case <-time.After(...): the learn timer expired.
SelTimerNoCancel ==
    /\ pc = "s_select"
    /\ branch' = "timer"
    /\ pc' = "s_after"
    /\ UNCHANGED <<chans, evA, stopErr, monRest>>
    /\ UNCHANGED <<ctlRest, cltVars, hVars, notMon, cmdVars, faultsLeft>>
SelTimer ==
    /\ pc = "s_select"
    /\ branch' = "timer"
    /\ pc' = "c_call"
    /\ UNCHANGED <<chans, evA, stopErr, monRest>>
    /\ UNCHANGED <<ctlRest, cltVars, hVars, notMon, cmdVars, faultsLeft>>

\* case evA, ok := <-eventCh with ok true.
SelEvent ==
    /\ pc = "s_select"
    /\ chans[eventCh].buf # <<>>
    /\ evA' = Head(chans[eventCh].buf)
    /\ chans' = [chans EXCEPT ![eventCh].buf = Tail(@)]
    /\ branch' = "event"
    /\ pc' = "c_call"
    /\ UNCHANGED <<stopErr, monRest>>
    /\ UNCHANGED <<ctlRest, cltVars, hVars, notMon, cmdVars, faultsLeft>>

\* case <-c.stopCh
SelStop ==
    /\ pc = "s_select"
    /\ stopCh
    /\ branch' = "stop"
    /\ pc' = "c_call"
    /\ UNCHANGED <<chans, evA, stopErr, monRest>>
    /\ UNCHANGED <<ctlRest, cltVars, hVars, notMon, cmdVars, faultsLeft>>

\* ---------------------------------------------------------------- stop function
\* monitorCancelFn of a mailbox that had messages: func() error { return nil }
CancelNoop ==
    /\ pc = "c_call"
    /\ stopKind = "noop"
    /\ stopErr' = "nil"
    /\ pc' = "s_after"
    /\ UNCHANGED <<chans, branch, evA, monRest>>
    /\ UNCHANGED <<ctlRest, cltVars, hVars, notMon, cmdVars, faultsLeft>>

\* errors.Join(idlecmd.Close(), idlecmd.Wait()) is nil: IDLE has ended.
CancelIdleOK ==
    /\ pc = "c_call"
    /\ stopKind = "idle"
    /\ ~sessClosed
    /\ idleActive' = FALSE
    /\ stopErr' = "nil"
    /\ pc' = "c_unset"
    /\ UNCHANGED <<chans, lastCh, newMessagesCh, eventCh, stopKind, branch, evA>>
    /\ UNCHANGED <<ctlRest, cltVars, hVars, notMon, cmdVars, faultsLeft>>

\* Ending IDLE reports an error; the command is over all the same.
CancelIdleFail ==
    /\ pc = "c_call"
    /\ stopKind = "idle"
    /\ IF sessClosed THEN UNCHANGED faultsLeft ELSE Fault
    /\ idleActive' = FALSE
    /\ stopErr' = "err"
    /\ pc' = "c_unset"
    /\ UNCHANGED <<chans, lastCh, newMessagesCh, eventCh, stopKind, branch, evA>>
    /\ UNCHANGED <<ctlRest, cltVars, hVars, notMon, cmdVars>>

\* c.setNewMessagesCH(nil) of the stop function.
CancelUnsetSkip ==
    /\ pc = "c_unset"
    /\ mu = "free"
    /\ pc' = "c_close"
    /\ UNCHANGED <<monVars>>
    /\ UNCHANGED <<ctlRest, cltVars, hVars, notMon, cmdVars, faultsLeft>>
\* Variant: the stop function clears the pointer without taking c.mu.
CancelUnsetNoLock ==
    /\ pc = "c_unset"
    /\ newMessagesCh' = Nil
    /\ pc' = "c_close"
    /\ UNCHANGED <<chans, lastCh, idleActive, startLocals>>
    /\ UNCHANGED <<ctlRest, cltVars, hVars, notMon, cmdVars, faultsLeft>>
CancelUnset ==
    /\ pc = "c_unset"
    /\ mu = "free"
    /\ newMessagesCh' = Nil
    /\ pc' = "c_close"
    /\ UNCHANGED <<chans, lastCh, idleActive, startLocals>>
    /\ UNCHANGED <<ctlRest, cltVars, hVars, notMon, cmdVars, faultsLeft>>

\* close(ch) of the stop function, which returns err.
CancelClose ==
    /\ pc = "c_close"
    /\ chans' = [chans EXCEPT ![eventCh].closed = TRUE]
    /\ pc' = "s_after"
    /\ UNCHANGED <<lastCh, newMessagesCh, idleActive, startLocals>>
    /\ UNCHANGED <<ctlRest, cltVars, hVars, notMon, cmdVars, faultsLeft>>

\* ---------------------------------------------------------------- after the stop function
afterRest == <<chans, lastCh, newMessagesCh, idleActive, eventCh, stopKind>>

\* monitorCancelFn returned an error: Start returns it.
AfterCancelErr ==
    /\ pc = "s_after"
    /\ stopErr = "err"
    /\ startRes' = "err"
    /\ pc' = "s_ret"
    /\ branch' = "none"
    /\ evA' = 0
    /\ stopErr' = "none"
    /\ UNCHANGED <<phase, lastLearnAt, lkind, passResult, learnResult, afterRest>>
    /\ UNCHANGED <<cltVars, hVars, notMon, cmdVars, faultsLeft>>

\* A slip the timer case could have: ProcessScanBox is left out.
AfterTimerNoScan ==
    /\ pc = "s_after"
    /\ stopErr # "err"
    /\ branch = "timer"
    /\ phase' = "timer"
    /\ UNCHANGED lastLearnAt
    /\ lkind' = "ham"
    /\ pc' = "l_begin"
    /\ branch' = "none"
    /\ stopErr' = "none"
    /\ UNCHANGED <<passResult, learnResult, startRes, evA, afterRest>>
    /\ UNCHANGED <<cltVars, hVars, notMon, cmdVars, faultsLeft>>

\* Timer case: ProcessScanBox, then ProcessHam and ProcessSpam.
AfterTimer ==
    /\ pc = "s_after"
    /\ stopErr # "err"
    /\ branch = "timer"
    /\ phase' = "timer"
    /\ UNCHANGED lastLearnAt
    /\ pc' = "p_begin"
    /\ branch' = "none"
    /\ stopErr' = "none"
    /\ UNCHANGED <<lkind, passResult, learnResult, startRes, evA, afterRest>>
    /\ UNCHANGED <<cltVars, hVars, notMon, cmdVars, faultsLeft>>

\* Variant: the event case scans whatever NewMsgCount is.
AfterEventNoneScans ==
    /\ pc = "s_after"
    /\ stopErr # "err"
    /\ branch = "event"
    /\ evA = 0
    /\ phase' = "event"
    /\ UNCHANGED lastLearnAt
    /\ pc' = "p_begin"
    /\ branch' = "none"
    /\ stopErr' = "none"
    /\ UNCHANGED <<lkind, passResult, learnResult, startRes, evA, afterRest>>
    /\ UNCHANGED <<cltVars, hVars, notMon, cmdVars, faultsLeft>>

\* Event case with NewMsgCount == 0: continue.
AfterEventNone ==
    /\ pc = "s_after"
    /\ stopErr # "err"
    /\ branch = "event"
    /\ evA = 0
    /\ pc' = "m_select"
    /\ branch' = "none"
    /\ stopErr' = "none"
    /\ UNCHANGED <<ctlRest, evA, afterRest>>
    /\ UNCHANGED <<cltVars, hVars, notMon, cmdVars, faultsLeft>>

\* Event case with new messages: ProcessScanBox.
AfterEventNew ==
    /\ pc = "s_after"
    /\ stopErr # "err"
    /\ branch = "event"
    /\ evA # 0
    /\ phase' = "event"
    /\ UNCHANGED lastLearnAt
    /\ pc' = "p_begin"
    /\ branch' = "none"
    /\ evA' = 0
    /\ stopErr' = "none"
    /\ UNCHANGED <<lkind, passResult, learnResult, startRes, afterRest>>
    /\ UNCHANGED <<cltVars, hVars, notMon, cmdVars, faultsLeft>>

\* A slip the stop case could have: the stop request is returned as an error.
AfterStopAsError ==
    /\ pc = "s_after"
    /\ stopErr # "err"
    /\ branch = "stop"
    /\ startRes' = "err"
    /\ pc' = "s_ret"
    /\ branch' = "none"
    /\ stopErr' = "none"
    /\ UNCHANGED <<phase, lastLearnAt, lkind, passResult, learnResult, evA, afterRest>>
    /\ UNCHANGED <<cltVars, hVars, notMon, cmdVars, faultsLeft>>

\* Stop case: Start returns nil.
AfterStop ==
    /\ pc = "s_after"
    /\ stopErr # "err"
    /\ branch = "stop"
    /\ startRes' = "nil"
    /\ pc' = "s_ret"
    /\ branch' = "none"
    /\ stopErr' = "none"
    /\ UNCHANGED <<phase, lastLearnAt, lkind, passResult, learnResult, evA, afterRest>>
    /\ UNCHANGED <<cltVars, hVars, notMon, cmdVars, faultsLeft>>

StartNext ==
    \/ StartAdd \/ StartReturn
    \/ SelTimer \/ SelEvent \/ SelStop
    \/ CancelNoop \/ CancelIdleOK \/ CancelIdleFail \/ CancelUnset \/ CancelClose
    \/ AfterCancelErr \/ AfterTimer \/ AfterEventNone \/ AfterEventNew
    \/ AfterStop

\* ---------------------------------------------------------------- mailboxUpdateHandler
\* The reader routine of the IMAP library calls the handler with the number
\* of messages of the selected mailbox, whenever the server reports it.
notHandler == <<serverVars, learnBoxVars, cltVars, ctlVars, passVars, replVars,
                learnVars, monVars, stopVars, otherVars, histVars, logVars, cmdVars,
                faultsLeft>>

\* c.mu.Lock(); c.newMessagesCh is nil: the update is ignored.
HandlerIgnore ==
    /\ ~sessClosed
    /\ mu = "free"
    /\ newMessagesCh = Nil
    /\ UNCHANGED <<hVars, notHandler>>

\* c.mu.Lock(); c.newMessagesCh is set.
HandlerLock ==
    /\ ~sessClosed
    /\ mu = "free"
    /\ newMessagesCh # Nil
    /\ mu' = "handler"
    /\ hch' = newMessagesCh
    /\ hnum' = Cardinality(scanMailbox)
    /\ UNCHANGED <<sendOnClosed, notHandler>>

\* sendEventNewMessages: select { case ch <- ev: default: }, then the
\* deferred c.mu.Unlock().
HandlerSendBlocking ==
    /\ mu = "handler"
    /\ Len(chans[hch].buf) < defChanBufSiz
    /\ chans' = [chans EXCEPT ![hch].buf = Append(@, hnum)]
    /\ sendOnClosed' = (sendOnClosed \/ chans[hch].closed)
    /\ mu' = "free"
    /\ hch' = Nil
    /\ hnum' = 0
    /\ UNCHANGED <<lastCh, newMessagesCh, idleActive, startLocals>>
    /\ UNCHANGED <<serverVars, learnBoxVars, cltVars, ctlVars, passVars,
                   replVars, learnVars, stopVars, otherVars, histVars, logVars, cmdVars,
                   faultsLeft>>
HandlerSend ==
    /\ mu = "handler"
    /\ IF chans[hch].closed
         THEN /\ sendOnClosed' = TRUE
              /\ UNCHANGED chans
         ELSE /\ UNCHANGED sendOnClosed
              /\ chans' = IF Len(chans[hch].buf) < defChanBufSiz
                            THEN [chans EXCEPT ![hch].buf = Append(@, hnum)]
                            ELSE chans
    /\ mu' = "free"
    /\ hch' = Nil
    /\ hnum' = 0
    /\ UNCHANGED <<lastCh, newMessagesCh, idleActive, startLocals>>
    /\ UNCHANGED <<serverVars, learnBoxVars, cltVars, ctlVars, passVars,
                   replVars, learnVars, stopVars, otherVars, histVars, logVars, cmdVars,
                   faultsLeft>>

HandlerNext == HandlerIgnore \/ HandlerLock \/ HandlerSend

\* ---------------------------------------------------------------- Stop
notStop == <<serverVars, learnBoxVars, ctlVars, passVars, replVars, learnVars,
             monVars, hVars, histVars, logVars, cmdVars, otherVars>>

\* c.stopOnce.Do of the first caller: the function runs, close(c.stopCh).
StopFirst(t) ==
    /\ stopPc[t] = "idle"
    /\ onceState = "fresh"
    /\ onceState' = "running"
    /\ stopCh' = TRUE
    /\ cntCloseStopCh' = cntCloseStopCh + 1
    /\ stopPc' = [stopPc EXCEPT ![t] = "wait"]
    /\ UNCHANGED <<spamTreshold, wgRun, sessClosed, stopRes, cntSessClose>>
    /\ UNCHANGED <<notStop, faultsLeft>>

\* c.stopOnce.Do of a later caller returns once the function has returned,
\* without running it; Stop returns its own err, which is nil.
StopAgain(t) ==
    /\ stopPc[t] = "idle"
    /\ onceState = "done"
    /\ stopPc' = [stopPc EXCEPT ![t] = "done"]
    /\ stopRes' = [stopRes EXCEPT ![t] = "nil"]
    /\ UNCHANGED <<cltVars, cntCloseStopCh, cntSessClose>>
    /\ UNCHANGED <<notStop, faultsLeft>>

\* c.wgRun.Wait() returns: the counter is zero.
StopWait(t) ==
    /\ stopPc[t] = "wait"
    /\ wgRun = 0
    /\ stopPc' = [stopPc EXCEPT ![t] = "close"]
    /\ UNCHANGED <<cltVars, stopRes, cntCloseStopCh, cntSessClose>>
    /\ UNCHANGED <<notStop, faultsLeft>>

\* err = c.clt.Close() is nil; Stop returns err.
StopCloseOK(t) ==
    /\ stopPc[t] = "close"
    /\ sessClosed' = TRUE
    /\ cntSessClose' = cntSessClose + 1
    /\ onceState' = "done"
    /\ stopPc' = [stopPc EXCEPT ![t] = "done"]
    /\ stopRes' = [stopRes EXCEPT ![t] = "nil"]
    /\ UNCHANGED <<spamTreshold, stopCh, wgRun, cntCloseStopCh>>
    /\ UNCHANGED <<notStop, faultsLeft>>

\* err = c.clt.Close() is an error; Stop returns err.
StopCloseFail(t) ==
    /\ stopPc[t] = "close"
    /\ Fault
    /\ sessClosed' = TRUE
    /\ cntSessClose' = cntSessClose + 1
    /\ onceState' = "done"
    /\ stopPc' = [stopPc EXCEPT ![t] = "done"]
    /\ stopRes' = [stopRes EXCEPT ![t] = "err"]
    /\ UNCHANGED <<spamTreshold, stopCh, wgRun, cntCloseStopCh>>
    /\ UNCHANGED notStop

StopNext ==
    \E t \in Stoppers :
        \/ StopFirst(t) \/ StopAgain(t) \/ StopWait(t)
        \/ StopCloseOK(t) \/ StopCloseFail(t)

\* ---------------------------------------------------------------- the engine
\* The state after NewClient, with Start about to run on its routine.  The
\* scores are told apart by the scan passes alone; here one threshold is
\* configured.
Init ==
    /\ InitServer
    /\ InitClient
    /\ InitLocals
    /\ InitObs
    /\ InitNoRetry
    /\ pc = "s_add"
    /\ phase = "init"
    /\ lastUID = MaxStartMails
    /\ spamTreshold = Min(Tresholds)
    /\ faultsLeft = Unlimited

Next ==
    \/ Deliver \/ DeliverHam \/ DeliverUndetected
    \/ StartNext
    \/ LearnNext
    \/ PassNext
    \/ MonitorNext
    \/ HandlerNext
    \/ StopNext

Spec == Init /\ [][Next]_vars

\* ================================================================ properties
Delivered == 1..(nextUID - 1)
Annotated(m) == inboxMailbox[m] + spamMailbox[m]
ScannedUIDs == {scannedMails[i].UID : i \in 1..Len(scannedMails)}

\* C1: no mail is lost.  Whatever calls fail in whatever pass, the original
\* of every mail delivered to the scan mailbox is in the scan mailbox or in
\* the backup mailbox.
C1_NoMailLost ==
    \A m \in Delivered : m \in scanMailbox \/ backupMailbox[m] >= 1

\* A pass that is over in which the Upload of one mail failed and the Move of
\* another failed.
C1_Witness ==
    /\ pc = "p_return"
    /\ \E m \in uploadFailed : backupMailbox[m] >= 1 /\ m \notin scanMailbox
    /\ \E m \in moveFailed : m \in scanMailbox

C3_MoveBeforeUpload ==
    /\ pc = "r_upload" =>
         /\ ReplMail.UID \in moveOK
         /\ backupMailbox[ReplMail.UID] >= 1
         /\ ReplMail.UID \notin scanMailbox
    /\ (uploadOK \cup uploadFailed) \subseteq moveOK
    /\ moveFailed \cap (uploadOK \cup uploadFailed) = {}
    /\ moveFailed \subseteq scanMailbox

\* A pass that is over in which one Move failed and one mail was uploaded.
C3_Witness ==
    /\ pc = "p_return"
    /\ moveFailed # {}
    /\ uploadOK # {}

\* C4 as stated: every mail placed in the scan mailbox eventually is in the
\* backup mailbox exactly once and has at least one annotated copy, in
\* exactly one of the inbox and the spam mailbox.
C4_Original ==
    \A m \in Mails :
        (m \in scanMailbox) ~>
            /\ backupMailbox[m] = 1
            /\ Annotated(m) >= 1
            /\ (inboxMailbox[m] = 0 \/ spamMailbox[m] = 0)

\* C4 amended: every mail placed in the scan mailbox eventually is in the
\* backup mailbox exactly once; it has at most one annotated copy, which
\* exists only with the backup; and eventually it has that copy or its
\* Upload failed, after which no pass sees the mail again.
C4_AtMostOnce ==
    /\ [](\A m \in Mails :
            /\ backupMailbox[m] <= 1
            /\ Annotated(m) <= 1
            /\ Annotated(m) = 1 => (backupMailbox[m] = 1 /\ m \notin scanMailbox)
            /\ m \in lostCopies => (backupMailbox[m] = 1 /\ m \notin scanMailbox))
    /\ \A m \in Mails :
         (m \in scanMailbox) ~>
             (backupMailbox[m] = 1 /\ (Annotated(m) = 1 \/ m \in lostCopies))

\* Between two passes: one mail has its backup and no annotated copy, its
\* Upload having failed; another has its backup and its copy.
C4_Witness ==
    /\ pc = "idle"
    /\ \E m \in lostCopies : backupMailbox[m] = 1 /\ Annotated(m) = 0
    /\ \E m \in Mails : backupMailbox[m] = 1 /\ Annotated(m) = 1

\* C5: when replaceWithModifiedMails returns, every mail of the list had its
\* Move attempted, every moved mail its Upload; a mail whose Upload failed is
\* in the backup mailbox; the result is nil iff no Move and no Upload failed.
C5_AggregatedError ==
    pc = "p_return" =>
        /\ moveOK \cup moveFailed = ScannedUIDs
        /\ uploadOK \cup uploadFailed = moveOK
        /\ \A m \in uploadFailed : backupMailbox[m] = 1 /\ m \notin scanMailbox
        /\ replResult = "nil" <=> (moveFailed = {} /\ uploadFailed = {})
        /\ replResult = "err" <=> (moveFailed # {} \/ uploadFailed # {})

\* The Upload of the first mail of the list failed, the second mail was
\* moved all the same, and the result is an error.
C5_Witness ==
    /\ pc = "p_return"
    /\ Len(scannedMails) >= 2
    /\ scannedMails[1].UID \in uploadFailed
    /\ scannedMails[2].UID \in moveOK
    /\ replResult = "err"


\* C6: IDLE exclusivity.  No IMAP command is issued while the IDLE started
\* by Monitor runs: IDLE runs only while Start waits in its select or has
\* just called the stop function, and every pass Start makes from the loop
\* begins after the stop function returned.
C6_IdleExclusive ==
    /\ ~cmdDuringIdle
    /\ idleActive => pc \in {"s_select", "c_call"}

\* A pass of the timer or the event case issues its Select after an IDLE
\* was ended by the stop function.
C6_Witness ==
    /\ pc = "p_select"
    /\ phase \in {"timer", "event"}
    /\ stopKind = "idle"
    /\ ~sessClosed

\* C7: event delivery never blocks.  A channel holds at most defChanBufSiz
\* events; the handler that holds the mutex can always finish its send; and
\* a send to a full channel leaves the channel as it is.
C7_NonBlocking ==
    /\ [](\A c \in ChanIds : Len(chans[c].buf) <= defChanBufSiz)
    /\ [](mu = "handler" => ENABLED HandlerSend)
    /\ [][(HandlerSend /\ Len(chans[hch].buf) = defChanBufSiz)
            => chans' = chans]_vars

\* The stop function waits for the mutex while the handler is about to send
\* to the full channel, which nobody reads.
C7_Witness ==
    /\ pc = "c_unset"
    /\ mu = "handler"
    /\ hch = eventCh
    /\ ~chans[hch].closed
    /\ Len(chans[hch].buf) = defChanBufSiz

\* C8: once the stop function has returned, IDLE is over, newMessagesCh is
\* nil and the event channel is closed, with at most the one buffered event
\* left to receive; nothing was ever sent to a closed channel.
C8_AfterStop ==
    /\ pc = "s_after" =>
         /\ ~idleActive
         /\ newMessagesCh = Nil
         /\ chans[eventCh].closed
         /\ Len(chans[eventCh].buf) <= defChanBufSiz
    /\ ~sendOnClosed

\* The stop function of a running IDLE has returned on the timer case, and an
\* event is still in the closed channel.
C8_Witness ==
    /\ pc = "s_after"
    /\ stopKind = "idle"
    /\ branch = "timer"
    /\ stopErr = "nil"
    /\ chans[eventCh].closed
    /\ chans[eventCh].buf # <<>>

\* C9 as stated: two calls of Stop return the same result.
C9_SameResult ==
    \A s, t \in Stoppers :
        (stopPc[s] = "done" /\ stopPc[t] = "done") => stopRes[s] = stopRes[t]

\* C9, the part that holds: stopCh and the session are closed at most once,
\* and both are closed when a call of Stop has returned.
C9_TeardownOnce ==
    /\ cntCloseStopCh <= 1
    /\ cntSessClose <= 1
    /\ \A t \in Stoppers :
         stopPc[t] = "done" => (cntCloseStopCh = 1 /\ cntSessClose = 1)

\* C10 as stated: the routine running Start issues no IMAP command on a
\* session that Stop has closed.
C10_NoCommandOnClosedSession == ~opOnClosed

\* ---------------------------------------------------------------- Start with working servers
\* The state after NewClient with Start about to run, the analyzer and the
\* IMAP server working: no failure is injected.
InitWorking ==
    /\ InitServer
    /\ InitClient
    /\ InitLocals
    /\ InitObs
    /\ InitNoRetry
    /\ pc = "s_add"
    /\ phase = "init"
    /\ lastUID = MaxStartMails
    /\ spamTreshold = Min(Tresholds)
    /\ faultsLeft = 0

\* The steps of the routine running Start other than the cases of its
\* select and the two lockings of the mutex.  A command fails only on a
\* session that Stop has closed, which the first Select of Start finds out.
RoutineStep ==
    \/ StartAdd \/ StartReturn
    \/ LearnBegin \/ LearnSelectOK \/ LearnSelectFail
    \/ LearnFetchOK \/ LearnFetchEnd \/ LearnFnOK
    \/ LearnNoMove \/ LearnMoveOK \/ LearnExit
    \/ PassBegin \/ PassSelectOK \/ PassFetchOK \/ PassFetchEnd \/ PassScanOK
    \/ ReplBegin \/ ReplMoveOK \/ ReplUploadOK \/ ReplEnd
    \/ PassEnd \/ PassExit
    \/ MonSelectOK \/ MonIdleOK
    \/ CancelNoop \/ CancelIdleOK \/ CancelClose
    \/ AfterTimer \/ AfterEventNone \/ AfterEventNew \/ AfterStop

\* One call of Stop.
StopStep ==
    \E t \in {Min(Stoppers)} : StopFirst(t) \/ StopWait(t) \/ StopCloseOK(t)

NextWorking ==
    \/ Deliver \/ DeliverHam \/ DeliverUndetected
    \/ RoutineStep
    \/ MonSetCh \/ CancelUnset
    \/ SelTimer \/ SelEvent \/ SelStop
    \/ HandlerNext
    \/ StopStep

\* The routine goes on while it can.  A select picks among its ready cases
\* at random, so a case that is ready at every select is taken at last: the
\* timer, which expires, and stopCh, which stays closed.  sync.Mutex hands
\* the lock to a waiting routine, and the handler returns.
FairWorking ==
    /\ WF_vars(RoutineStep)
    /\ SF_vars(SelTimer)
    /\ SF_vars(SelStop)
    /\ SF_vars(MonSetCh)
    /\ SF_vars(CancelUnset)
    /\ WF_vars(HandlerSend)

FairStart == InitWorking /\ [][NextWorking]_vars /\ FairWorking

\* The steps of the routine while Stop is not called: no command meets a
\* closed session and Start does not return.
RunningStep ==
    \/ StartAdd
    \/ LearnBegin \/ LearnSelectOK
    \/ LearnFetchOK \/ LearnFetchEnd \/ LearnFnOK
    \/ LearnNoMove \/ LearnMoveOK \/ LearnExit
    \/ PassBegin \/ PassSelectOK \/ PassFetchOK \/ PassFetchEnd \/ PassScanOK
    \/ ReplBegin \/ ReplMoveOK \/ ReplUploadOK \/ ReplEnd
    \/ PassEnd \/ PassExit
    \/ MonSelectOK \/ MonIdleOK
    \/ CancelNoop \/ CancelIdleOK \/ CancelClose
    \/ AfterTimer \/ AfterEventNone \/ AfterEventNew

NextRunning ==
    \/ Deliver \/ DeliverHam \/ DeliverUndetected
    \/ RunningStep
    \/ MonSetCh \/ CancelUnset
    \/ SelTimer \/ SelEvent
    \/ HandlerNext

\* Start with working servers while Stop is not called, with the fairness
\* of FairWorking for the steps that are left.
FairRunning ==
    /\ InitWorking
    /\ [][NextRunning]_vars
    /\ WF_vars(RunningStep)
    /\ SF_vars(SelTimer)
    /\ SF_vars(MonSetCh)
    /\ SF_vars(CancelUnset)
    /\ WF_vars(HandlerSend)

\* C11: when Stop has closed stopCh and waits for the running Start, Start
\* eventually returns, and it returns nil; it leaves its select only
\* through the stop function; a Start that had no command on a closed
\* session returns nil.
C11_StopReturns ==
    /\ [](pc = "s_after" => stopErr # "none")
    /\ []((pc = "done" /\ ~opOnClosed) => startRes = "nil")
    /\ (wgRun = 1 /\ \E t \in Stoppers : stopPc[t] = "wait")
         ~> (pc = "done" /\ startRes = "nil")

\* Start has returned nil after stopCh was closed during an IDLE.
C11_Witness ==
    /\ pc = "done"
    /\ startRes = "nil"
    /\ stopCh
    /\ stopKind = "idle"
    /\ ~opOnClosed

\* C12: while Start runs and Stop is not called, every mail that is in the
\* scan mailbox, whenever it was delivered, eventually is in the backup
\* mailbox with its annotated copy uploaded, and out of the scan mailbox.
C12_EveryArrivalProcessed ==
    \A m \in Mails :
        (m \in scanMailbox) ~>
            \/ (m \notin scanMailbox /\ backupMailbox[m] = 1 /\ Annotated(m) = 1)
            \/ stopCh

\* A pass started by an event of a running IDLE has uploaded a mail.
C12_Witness ==
    /\ pc = "p_return"
    /\ phase = "event"
    /\ stopKind = "idle"
    /\ uploadOK # {}
    /\ ~stopCh

\* C13: while Start runs and Stop is not called, every mail in the ham
\* mailbox eventually is learned and moved to the inbox, every mail in the
\* undetected mailbox to the spam mailbox; and whenever Start waits in its
\* select, the timer case is taken at some later time.
C13_LearnedByTimer ==
    /\ \A m \in 1..MaxStartLearn :
         (m \in hamMailbox) ~>
             ((m \notin hamMailbox /\ m \in learnedInbox) \/ stopCh)
    /\ \A m \in 1..MaxStartLearn :
         (m \in undetectedMailbox) ~>
             ((m \notin undetectedMailbox /\ m \in learnedSpam) \/ stopCh)
    /\ (pc = "s_select") ~> (branch = "timer" \/ stopCh)

\* The learn passes of a timer case have moved a ham mail and a spam mail
\* that were delivered after the start.
C13_Witness ==
    /\ pc = "m_select"
    /\ phase = "timer"
    /\ learnedInbox # {}
    /\ learnedSpam # {}
    /\ ~stopCh


\* ---------------------------------------------------------------- malformed messages
\* A caller runs ProcessHam.
RunHam ==
    /\ pc = "idle"
    /\ named["ham"]
    /\ pc' = "l_begin"
    /\ lkind' = "ham"
    /\ UNCHANGED <<phase, lastLearnAt, passResult, learnResult, startRes>>
    /\ UNCHANGED <<serverVars, learnBoxVars, notLearn, passVars, learnVars,
                   cmdVars, faultsLeft>>

\* A caller runs ProcessSpam.
RunSpam ==
    /\ pc = "idle"
    /\ named["spam"]
    /\ pc' = "l_begin"
    /\ lkind' = "spam"
    /\ UNCHANGED <<phase, lastLearnAt, passResult, learnResult, startRes>>
    /\ UNCHANGED <<serverVars, learnBoxVars, notLearn, passVars, learnVars,
                   cmdVars, faultsLeft>>

\* Some of the mails that other clients deliver are malformed; the session
\* and the analyzer work.
InitMalformed ==
    /\ InitServer /\ InitClient /\ InitLocals /\ InitObs /\ InitRunner
    /\ InitNoPkg
    /\ MaxRetriesSameError = MaxRetries
    /\ RetryIntervals = <<MaxDuration>>
    /\ malformed \in SUBSET Mails
    /\ malformedLearn \in SUBSET (1..MaxStartLearn)
    /\ lastLearn = MaxStartLearn
    /\ named = [k \in {"ham", "spam"} |-> TRUE]
    /\ now = 1
    /\ pc = "idle"
    /\ phase = "pass"
    /\ spamTreshold \in Tresholds
    /\ lastUID = MaxMails
    /\ faultsLeft = 0

NextMalformed ==
    \/ Deliver \/ DeliverHam \/ DeliverUndetected
    \/ RunPass \/ RunHam \/ RunSpam
    \/ PassBegin \/ PassSelectOK \/ PassFetchOK \/ PassFetchMalformed
    \/ PassFetchEnd \/ PassScanOK
    \/ ReplBegin \/ ReplMoveOK \/ ReplUploadOK \/ ReplEnd \/ PassEnd \/ PassExit
    \/ LearnBegin \/ LearnSelectOK \/ LearnFetchOK \/ LearnFetchMalformed
    \/ LearnFetchEnd \/ LearnFnOK \/ LearnNoMove \/ LearnMoveOK \/ LearnExit

SpecMalformed == InitMalformed /\ [][NextMalformed]_vars

\* C14: a malformed message in ScanMailbox does not abort the pass:
\* ProcessScanBox returns no error, every valid message of the pass is backed
\* up with its annotated copy uploaded, and no message the pass was given is
\* left in ScanMailbox.
C14_MalformedSkipped ==
    (pc = "p_exit" /\ phase = "pass") =>
        /\ passResult = "nil"
        /\ (ScannedUIDs \cup Range(todo)) \cap scanMailbox = {}
        /\ \A m \in ScannedUIDs : backupMailbox[m] = 1 /\ Annotated(m) = 1

\* C15: a malformed message in HamMailbox or UndetectedMailbox does not fail
\* ProcessHam / ProcessSpam: learn returns no error and no message it was
\* given is left in the source mailbox.
C15_MalformedLearnSkipped ==
    (pc = "l_exit" /\ phase = "pass") =>
        /\ learnResult = "nil"
        /\ (Range(learnedMsgUIDs) \cup Range(todo)) \cap LearnSrc = {}

\* The failed message and the messages after it in a pass whose scan failed.
NotScanned == {msg} \cup Range(todo)

notRetry == <<serverVars, learnBoxVars, cltVars, ctlVars, passVars, replVars,
              learnVars, monVars, hVars, stopVars, histVars, logVars, cmdVars,
              faultsLeft, envVars, cfgVars, pkgVars>>

\* A wrapper that an earlier call of Fn has allocated.
Wrapper == 0 - 1

\* errors.Unwrap(err): nil for an error without Unwrap, the cause for a
\* wrapper of the cause, and the inner wrapper for a wrapper of a wrapper.
Unwrap(e) ==
    CASE e.layers = 0 -> Nil
      [] e.layers = 1 -> e.root
      [] OTHER -> Wrapper

\* errors.Is(err, target) for a target that Unwrap has returned: false for
\* nil; otherwise the chain of err is compared with ==, and the chain is
\* the freshly allocated wrappers of err followed by its cause, so that a
\* wrapper of an earlier call is not in it.
Is(e, target) ==
    /\ target # Nil
    /\ target # Wrapper
    /\ e.root = target

\* sleepTime, read after the counter was set.
sleepTime ==
    IF failures - 1 < Len(RetryIntervals)
      THEN RetryIntervals[failures]
      ELSE RetryIntervals[Len(RetryIntervals)]

\* Run is called; the fields of the Runner are as the call before left them.
RunBegin ==
    /\ rpc \in {"idle", "done"}
    /\ runs < MaxRuns
    /\ runs' = runs + 1
    /\ rpc' = "call"
    /\ calls' = 0
    /\ sleeps' = <<>>
    /\ fnErr' = NoErr
    /\ runResult' = NoResult
    /\ firstErr' = NoErr
    /\ allSame' = TRUE
    /\ UNCHANGED <<failures, lastError, prevRoot, allDiffer, notRetry>>

\* r.Fn() is invoked and returns the error e.
Failed(e) ==
    /\ rpc = "call"
    /\ calls < MaxCalls
    /\ calls' = calls + 1
    /\ fnErr' = e
    /\ firstErr' = IF firstErr = NoErr THEN e ELSE firstErr
    /\ allSame' = (allSame /\ firstErr \in {NoErr, e})
    /\ prevRoot' = e.root
    /\ allDiffer' = (allDiffer /\ e.retryable /\ e.root # prevRoot)
    /\ UNCHANGED <<runs, notRetry>>

\* r.Fn() returns nil: Run returns nil.
RunFnOK ==
    /\ rpc = "call"
    /\ calls < MaxCalls
    /\ calls' = calls + 1
    /\ fnErr' = NoErr
    /\ runResult' = [kind |-> "nil", err |-> NoErr]
    /\ rpc' = "done"
    /\ UNCHANGED <<failures, lastError, sleeps, runs, firstErr, allSame,
                   prevRoot, allDiffer, notRetry>>

\* Variant: an error that is not retryable is retried like a new one.
RunNonRetryableRetried ==
    \E e \in Errors :
        /\ ~e.retryable
        /\ Failed(e)
        /\ failures' = 1
        /\ lastError' = Unwrap(e)
        /\ rpc' = "sleep"
        /\ UNCHANGED <<runResult, sleeps>>

\* The error is not retryable: Run returns it wrapped.
RunNonRetryable ==
    \E e \in Errors :
        /\ ~e.retryable
        /\ Failed(e)
        /\ failures' = failures + 1
        /\ runResult' = [kind |-> "nonretryable", err |-> e]
        /\ rpc' = "done"
        /\ UNCHANGED <<lastError, sleeps>>

\* The error is r.lastError again and the counter has reached the cap.
RunMaxRetries ==
    \E e \in Errors :
        /\ e.retryable
        /\ Is(e, lastError)
        /\ failures + 1 >= MaxRetriesSameError
        /\ Failed(e)
        /\ failures' = failures + 1
        /\ runResult' = [kind |-> "maxretries", err |-> e]
        /\ rpc' = "done"
        /\ UNCHANGED <<lastError, sleeps>>

\* The error is r.lastError again, below the cap.
RunSameError ==
    \E e \in Errors :
        /\ e.retryable
        /\ Is(e, lastError)
        /\ failures + 1 < MaxRetriesSameError
        /\ Failed(e)
        /\ failures' = failures + 1
        /\ lastError' = Unwrap(e)
        /\ rpc' = "sleep"
        /\ UNCHANGED <<runResult, sleeps>>

\* Variant: the counter goes on counting when the error is another one.
RunOtherErrorNoReset ==
    \E e \in Errors :
        /\ e.retryable
        /\ ~Is(e, lastError)
        /\ Failed(e)
        /\ failures' = failures + 1
        /\ lastError' = Unwrap(e)
        /\ rpc' = "sleep"
        /\ UNCHANGED <<runResult, sleeps>>

\* The error is not r.lastError: the counter restarts at 1.
RunOtherError ==
    \E e \in Errors :
        /\ e.retryable
        /\ ~Is(e, lastError)
        /\ Failed(e)
        /\ failures' = 1
        /\ lastError' = Unwrap(e)
        /\ rpc' = "sleep"
        /\ UNCHANGED <<runResult, sleeps>>

\* time.Sleep(sleepTime) returns and the loop starts over.
RunSleep ==
    /\ rpc = "sleep"
    /\ sleeps' = Append(sleeps, sleepTime)
    /\ rpc' = "call"
    /\ UNCHANGED <<failures, lastError, fnErr, runResult, calls, runs,
                   firstErr, allSame, prevRoot, allDiffer, notRetry>>

\* A Runner with a positive cap and a non-empty list of intervals.
InitRetry ==
    /\ InitServer /\ InitClient /\ InitLocals /\ InitObs /\ InitEnv
    /\ InitRunner
    /\ InitNoPkg
    /\ pc = "idle"
    /\ phase = "pass"
    /\ spamTreshold = Min(Tresholds)
    /\ lastUID = MaxMails
    /\ faultsLeft = 0
    /\ MaxRetriesSameError \in 1..MaxRetries
    /\ \E n \in 1..MaxIntervals : RetryIntervals \in [1..n -> 1..MaxDuration]

NextRetry ==
    \/ RunBegin
    \/ RunFnOK
    \/ RunNonRetryable
    \/ RunMaxRetries
    \/ RunSameError
    \/ RunOtherError
    \/ RunSleep

SpecRetry == InitRetry /\ [][NextRetry]_vars

\* C17: when every invocation of the thunk in the Run of a new Runner fails
\* with the same retryable error, Run makes exactly MaxRetriesSameError
\* attempts and returns the max-retries error wrapping that error.
C17_ExactlyMaxAttempts ==
    (runs = 1 /\ calls >= 1 /\ allSame /\ firstErr.retryable
     /\ runResult.kind # "nil") =>
        /\ calls <= MaxRetriesSameError
        /\ (calls = MaxRetriesSameError) = (rpc = "done")
        /\ rpc = "done" => runResult = [kind |-> "maxretries", err |-> firstErr]

\* C18: after failures that all were retryable and changed the root cause,
\* a retryable failure with another root cause than the failure before sets
\* the counter to 1 and Run sleeps and tries again: it does not return.
C18_ChangedCauseResets ==
    [][(/\ allDiffer
        /\ calls' = calls + 1
        /\ fnErr'.retryable
        /\ fnErr'.root # prevRoot) =>
            (failures' = 1 /\ rpc' = "sleep" /\ runResult' = NoResult)]_vars
C18_Witness ==
    /\ allDiffer
    /\ rpc = "sleep"
    /\ calls > MaxRetriesSameError
    /\ lastError # Nil

\* C19: when all failures in the Run of a new Runner are the same error, the
\* k-th sleep lasts RetryIntervals[min(k-1, len(RetryIntervals)-1)].
C19_SleepSchedule ==
    (runs = 1 /\ allSame) =>
        \A k \in 1..Len(sleeps) :
            sleeps[k] = RetryIntervals[Min({k, Len(RetryIntervals)})]

\* C20: a failure that the classifier reports as not retryable makes Run
\* return at once an error wrapping it, without a sleep; a success makes Run
\* return nil at once; and the thunk is not invoked after Run has returned.
C20_ReturnsAtOnce ==
    [][/\ (calls' = calls + 1 /\ fnErr' # NoErr /\ ~fnErr'.retryable) =>
            /\ rpc' = "done"
            /\ runResult' = [kind |-> "nonretryable", err |-> fnErr']
            /\ sleeps' = sleeps
       /\ (calls' = calls + 1 /\ fnErr' = NoErr) =>
            /\ rpc' = "done"
            /\ runResult' = [kind |-> "nil", err |-> NoErr]
            /\ sleeps' = sleeps
       /\ rpc = "done" =>
            \/ calls' = calls /\ sleeps' = sleeps
            \/ runs' = runs + 1]_vars
C20_Witness ==
    /\ rpc = "done"
    /\ runResult.kind = "nonretryable"
    /\ failures > 1
    /\ lastError # Nil
    /\ sleeps # <<>>

\* ---------------------------------------------------------------- mail.AddHeaders
\* The variables of the engine, of the Runner and of the rspamd client.
coreVars == <<serverVars, learnBoxVars, cltVars, ctlVars, passVars, replVars,
              learnVars, monVars, hVars, stopVars, histVars, logVars, cmdVars,
              faultsLeft, envVars, retryVars, checkVars,
              hdrVars,
              tmpVars,
              sendVars,
              fetchVars>>

\* The engine is not running.
InitCoreIdle ==
    /\ InitServer /\ InitClient /\ InitLocals /\ InitObs /\ InitEnv
    /\ InitRunner
    /\ MaxRetriesSameError = MaxRetries
    /\ RetryIntervals = <<MaxDuration>>
    /\ pc = "idle"
    /\ phase = "pass"
    /\ spamTreshold = Min(Tresholds)
    /\ lastUID = MaxMails
    /\ faultsLeft = 0

\* Bytes of a message: CR, LF and any other byte of the original; the bytes
\* of the new header lines are told apart from those of the original.
Bytes == {"CR", "LF", "a"}
CRLF == <<"CR", "LF">>
Files == UNION {[1..n -> Bytes] : n \in 0..MaxFile}
HeaderBlocks == {<<>>, <<"n", "CR", "LF">>}

\* bytes.Index(s, "\r\n\r\n"): the 0-based index of the first occurrence,
\* -1 if there is none.
Index(s) ==
    LET hits == {i \in 0..(Len(s) - 4) : SubSeq(s, i + 1, i + 4) = CRLF \o CRLF}
    IN  IF hits = {} THEN 0 - 1 ELSE Min(hits)

\* emailBr.Read(buf): the next bytes of the file, at most len(buf).
Chunk == SubSeq(orig, pos + 1, Min({pos + ChunkSize, Len(orig)}))

\* AddHeaders(path, headers) is called.
AddBegin ==
    /\ apc = "idle"
    /\ apc' = "create"
    /\ UNCHANGED <<orig, orig0, hdrs, pos, buf, tmpData, tmpFile, addResult,
                   coreVars, asVars, newVars>>

\* os.CreateTemp succeeds.
AddCreateTempOK ==
    /\ apc = "create"
    /\ tmpFile' = "open"
    /\ apc' = "open"
    /\ UNCHANGED <<orig, orig0, hdrs, pos, buf, tmpData, addResult, coreVars, asVars, newVars>>

\* os.CreateTemp fails: AddHeaders returns the error.
AddCreateTempFail ==
    /\ apc = "create"
    /\ addResult' = "ioerr"
    /\ apc' = "done"
    /\ UNCHANGED <<orig, orig0, hdrs, pos, buf, tmpData, tmpFile, coreVars, asVars, newVars>>

\* os.Open(path) succeeds.
AddOpenOK ==
    /\ apc = "open"
    /\ apc' = "read"
    /\ UNCHANGED <<orig, orig0, hdrs, pos, buf, tmpData, tmpFile, addResult,
                   coreVars, asVars, newVars>>

\* os.Open(path) fails: AddHeaders returns the error.
AddOpenFail ==
    /\ apc = "open"
    /\ addResult' = "ioerr"
    /\ apc' = "done"
    /\ UNCHANGED <<orig, orig0, hdrs, pos, buf, tmpData, tmpFile, coreVars, asVars, newVars>>

\* addHeaders returned the error r: the temp file is closed and removed.
AddAbort(r) ==
    /\ tmpFile' = "removed"
    /\ addResult' = r
    /\ apc' = "done"
    /\ UNCHANGED <<orig, orig0, hdrs, pos, buf, tmpData, coreVars, asVars, newVars>>

\* Read returns io.EOF: header end not found.
AddReadEOF ==
    /\ apc = "read"
    /\ pos = Len(orig)
    /\ AddAbort("notfound")

\* Read returns another error.
AddReadFail ==
    /\ apc = "read"
    /\ AddAbort("ioerr")

\* The chunk holds CR LF CR LF at idx: buf[:idx] is written and
\* buf = buf[idx+2 : n].
AddReadFound ==
    /\ apc = "read"
    /\ pos < Len(orig)
    /\ Index(Chunk) # 0 - 1
    /\ tmpData' = tmpData \o SubSeq(Chunk, 1, Index(Chunk))
    /\ buf' = SubSeq(Chunk, Index(Chunk) + 3, Len(Chunk))
    /\ pos' = pos + Len(Chunk)
    /\ apc' = "tail"
    /\ UNCHANGED <<orig, orig0, hdrs, tmpFile, addResult, coreVars, asVars, newVars>>

\* The chunk does not hold CR LF CR LF: it is written and the loop goes on.
AddReadCopy ==
    /\ apc = "read"
    /\ pos < Len(orig)
    /\ Index(Chunk) = 0 - 1
    /\ tmpData' = tmpData \o Chunk
    /\ pos' = pos + Len(Chunk)
    /\ UNCHANGED <<apc, orig, orig0, hdrs, buf, tmpFile, addResult, coreVars, asVars, newVars>>

\* CR LF, hdrs, the rest of buf and the rest of the file are written and
\* the writer is flushed.
AddTail ==
    /\ apc = "tail"
    /\ tmpData' = tmpData \o CRLF \o hdrs \o buf
                    \o SubSeq(orig, pos + 1, Len(orig))
    /\ pos' = Len(orig)
    /\ apc' = "close"
    /\ UNCHANGED <<orig, orig0, hdrs, buf, tmpFile, addResult, coreVars, asVars, newVars>>

\* A Write, the Copy or the Flush fails.
AddWriteFail ==
    /\ apc \in {"read", "tail"}
    /\ pos < Len(orig) \/ apc = "tail"
    /\ AddAbort("ioerr")

\* tmpfileFd.Close succeeds.
AddCloseOK ==
    /\ apc = "close"
    /\ tmpFile' = "closed"
    /\ apc' = "rename"
    /\ UNCHANGED <<orig, orig0, hdrs, pos, buf, tmpData, addResult, coreVars, asVars, newVars>>

\* tmpfileFd.Close fails: the temp file is removed.
AddCloseFail ==
    /\ apc = "close"
    /\ AddAbort("ioerr")

\* os.Rename puts the temp file in the place of the original.
AddRenameOK ==
    /\ apc = "rename"
    /\ orig' = tmpData
    /\ tmpFile' = "renamed"
    /\ addResult' = "nil"
    /\ apc' = "done"
    /\ UNCHANGED <<orig0, hdrs, pos, buf, tmpData, coreVars, asVars, newVars>>

\* os.Rename fails: AddHeaders returns its error.
AddRenameFail ==
    /\ apc = "rename"
    /\ addResult' = "ioerr"
    /\ apc' = "done"
    /\ UNCHANGED <<orig, orig0, hdrs, pos, buf, tmpData, tmpFile, coreVars, asVars, newVars>>

\* Any file and any block of header lines.
InitAdd ==
    /\ InitCoreIdle
    /\ InitFetchIdle
    /\ InitSendIdle
    /\ InitTmpIdle
    /\ InitHdrIdle
    /\ InitCheckIdle
    /\ InitAsIdle
    /\ InitNewIdle
    /\ apc = "idle"
    /\ orig \in Files
    /\ orig0 = orig
    /\ hdrs \in HeaderBlocks
    /\ pos = 0
    /\ buf = <<>>
    /\ tmpData = <<>>
    /\ tmpFile = "none"
    /\ addResult = "none"

NextAdd ==
    \/ AddBegin
    \/ AddCreateTempOK \/ AddCreateTempFail
    \/ AddOpenOK \/ AddOpenFail
    \/ AddReadEOF \/ AddReadFail \/ AddReadFound \/ AddReadCopy
    \/ AddTail \/ AddWriteFail
    \/ AddCloseOK \/ AddCloseFail
    \/ AddRenameOK \/ AddRenameFail

SpecAdd == InitAdd /\ [][NextAdd]_vars

\* The message H CRLF N CRLF B for the file H CRLF CRLF B, the boundary being
\* the first CR LF CR LF of the file.
Inserted(f, n) ==
    SubSeq(f, 1, Index(f)) \o CRLF \o n \o CRLF \o SubSeq(f, Index(f) + 5, Len(f))

\* C21: for a file H CRLF CRLF B, AddHeaders without an I/O failure succeeds
\* and leaves H CRLF N CRLF B in the file.
C21_HeadersInserted ==
    (apc = "done" /\ Index(orig0) # 0 - 1 /\ addResult # "ioerr") =>
        (addResult = "nil" /\ orig = Inserted(orig0, hdrs))

\* The boundary CR LF CR LF of f does not lie inside one chunk.
Straddles(f) ==
    /\ Index(f) # 0 - 1
    /\ Index(f) \div ChunkSize # (Index(f) + 3) \div ChunkSize

\* C22: a boundary that is split across two chunk reads is found and the
\* output is the one for a boundary inside one chunk.
C22_BoundaryAcrossChunks ==
    (apc = "done" /\ Straddles(orig0) /\ addResult # "ioerr") =>
        (addResult = "nil" /\ orig = Inserted(orig0, hdrs))

\* C23: after every failure of AddHeaders the temp file, if it was created,
\* is closed and removed, and the original file is unchanged.
C23_FailureLeavesNoTemp ==
    (apc = "done" /\ addResult # "nil") =>
        (tmpFile \in {"none", "removed"} /\ orig = orig0)

\* ---------------------------------------------------------------- mail.AsHeader
\* A string is a sequence of runs [c, n]: n times the character with code c.
\* The codes are those around the limits 33 and 126, the colon (58), and CR
\* (13) and LF (10) for the end of the line; the lengths lie around
\* maxLineLength.
Run(c, n) == [c |-> c, n |-> n]
Runs == [c : {32, 33, 58, 126, 127}, n : {1, 497, 498}]
Strings == UNION {[1..k -> Runs] : k \in 0..MaxStrRuns}

\* len(s)
RECURSIVE len(_)
len(s) == IF s = <<>> THEN 0 ELSE Head(s).n + len(Tail(s))

\* strEmailHdrCharsOnly: the characters from 33 to 126 without the colon.
hdrChar(r) == r.c >= 33 /\ r.c <= 126 /\ r.c # 58
strEmailHdrCharsOnly(s) == SelectSeq(s, hdrChar)

\* AsHeader(name, w)
AsHeader(name, w) ==
    LET nClean == strEmailHdrCharsOnly(name)
        bClean == strEmailHdrCharsOnly(w)
        hdr == nClean \o <<Run(58, 1), Run(32, 1)>> \o bClean
                 \o <<Run(13, 1), Run(10, 1)>>
    IN  IF len(nClean) # len(name) THEN [err |-> "name", line |-> <<>>]
        ELSE IF len(bClean) # len(w) THEN [err |-> "body", line |-> <<>>]
        ELSE IF len(hdr) > maxLineLength THEN [err |-> "toolong", line |-> <<>>]
        ELSE [err |-> "nil", line |-> hdr]

\* AsHeader is called and returns.
AsHeaderCall ==
    /\ asResult = NoLine
    /\ asResult' = AsHeader(asName, asBody)
    /\ UNCHANGED <<asName, asBody, mailVars, coreVars, newVars>>

InitAs ==
    /\ InitCoreIdle
    /\ InitFetchIdle
    /\ InitSendIdle
    /\ InitTmpIdle
    /\ InitHdrIdle
    /\ InitCheckIdle
    /\ InitAddIdle
    /\ InitNewIdle
    /\ asName \in Strings
    /\ asBody \in Strings
    /\ asResult = NoLine

SpecAs == InitAs /\ [][AsHeaderCall]_vars

\* Some character of s has a code outside 33..126.
NotPrintable(s) == \E i \in 1..Len(s) : s[i].c < 33 \/ s[i].c > 126
HasColon(s) == \E i \in 1..Len(s) : s[i].c = 58

\* C24: AsHeader fails with an invalid-character error iff a character of
\* name or body lies outside 33..126 or the name holds a colon; otherwise it
\* returns name ': ' body CR LF if that line has at most maxLineLength bytes
\* and fails with header too long if not.
C24_AsHeaderResult ==
    LET invalid == NotPrintable(asName) \/ NotPrintable(asBody) \/ HasColon(asName)
        line == asName \o <<Run(58, 1), Run(32, 1)>> \o asBody
                  \o <<Run(13, 1), Run(10, 1)>>
    IN  asResult # NoLine =>
          /\ (asResult.err \in {"name", "body"}) = invalid
          /\ ~invalid =>
               asResult = IF len(line) <= maxLineLength
                            THEN [err |-> "nil", line |-> line]
                            ELSE [err |-> "toolong", line |-> <<>>]

\* ---------------------------------------------------------------- iscan.NewClient
\* Mailbox names, thresholds around 0, and what os.Stat(TempDir) finds.
Configs ==
    [BackupMailbox : {"", "a", "b"}, HamMailbox : {"", "a", "b"},
     InboxMailbox : {"", "a", "b"}, ScanMailbox : {"", "a", "b"},
     SpamMailboxName : {""}, UndetectedMailboxName : {"", "a", "b"},
     SpamTreshold : {0 - 1, 0, 1}, TempDir : {"missing", "file", "dir"}]

\* Variant: validate without the comparison of ScanMailbox and HamMailbox.
validateNoHam ==
    CASE cfg.SpamTreshold <= 0 -> "SpamTreshold"
      [] cfg.ScanMailbox = cfg.InboxMailbox -> "ScanInbox"
      [] cfg.ScanMailbox = cfg.UndetectedMailboxName -> "ScanUndetected"
      [] cfg.BackupMailbox = "" -> "BackupEmpty"
      [] cfg.BackupMailbox = cfg.InboxMailbox -> "BackupInbox"
      [] cfg.TempDir = "missing" -> "TempDirStat"
      [] cfg.TempDir # "dir" -> "TempDirNotDir"
      [] OTHER -> "nil"

\* Config.validate: the first error in the order of the code, "nil" if none.
validate ==
    IF cfg.SpamTreshold <= 0 THEN "SpamTreshold"
    ELSE IF cfg.ScanMailbox = cfg.InboxMailbox THEN "ScanInbox"
    ELSE IF cfg.ScanMailbox = cfg.UndetectedMailboxName THEN "ScanUndetected"
    ELSE IF cfg.ScanMailbox = cfg.HamMailbox THEN "ScanHam"
    ELSE IF cfg.BackupMailbox = "" THEN "BackupEmpty"
    ELSE IF cfg.BackupMailbox = cfg.InboxMailbox THEN "BackupInbox"
    ELSE IF cfg.SpamTreshold = 0 THEN "SpamTreshold"
    ELSE IF cfg.TempDir = "missing" THEN "TempDirStat"
    ELSE IF cfg.TempDir # "dir" THEN "TempDirNotDir"
    ELSE "nil"

\* NewClient: validate fails and its error is returned.
NewClientInvalid ==
    /\ newClientRes = "none"
    /\ validate # "nil"
    /\ newClientRes' = "invalid"
    /\ UNCHANGED <<cfg, connTried, mailVars, asVars, coreVars>>

\* NewClient: the configuration is valid and imapclt.Connect succeeds.
NewClientOK ==
    /\ newClientRes = "none"
    /\ validate = "nil"
    /\ connTried' = TRUE
    /\ newClientRes' = "ok"
    /\ UNCHANGED <<cfg, mailVars, asVars, coreVars>>

\* NewClient: the configuration is valid and imapclt.Connect fails.
NewClientConnectFail ==
    /\ newClientRes = "none"
    /\ validate = "nil"
    /\ connTried' = TRUE
    /\ newClientRes' = "connerr"
    /\ UNCHANGED <<cfg, mailVars, asVars, coreVars>>

InitNew ==
    /\ InitCoreIdle
    /\ InitFetchIdle
    /\ InitSendIdle
    /\ InitTmpIdle
    /\ InitHdrIdle
    /\ InitCheckIdle
    /\ InitAddIdle
    /\ InitAsIdle
    /\ cfg \in Configs
    /\ connTried = FALSE
    /\ newClientRes = "none"

NextNew == NewClientInvalid \/ NewClientOK \/ NewClientConnectFail

SpecNew == InitNew /\ [][NextNew]_vars

\* C25: NewClient returns the error of the validation, without a connection
\* attempt, exactly when ScanMailbox equals InboxMailbox, HamMailbox or
\* UndetectedMailbox, BackupMailbox is empty or equals InboxMailbox,
\* SpamTreshold is not positive, or TempDir is missing or not a directory.
C25_ValidatedBeforeConnect ==
    LET violates ==
          \/ cfg.ScanMailbox \in {cfg.InboxMailbox, cfg.HamMailbox,
                                  cfg.UndetectedMailboxName}
          \/ cfg.BackupMailbox = ""
          \/ cfg.BackupMailbox = cfg.InboxMailbox
          \/ cfg.SpamTreshold <= 0
          \/ cfg.TempDir # "dir"
    IN  /\ connTried => ~violates
        /\ newClientRes # "none" =>
             /\ (newClientRes = "invalid") = violates
             /\ violates => ~connTried
             /\ ~violates => connTried
C25_Witness ==
    /\ newClientRes = "invalid"
    /\ cfg.ScanMailbox = cfg.HamMailbox
    /\ cfg.ScanMailbox # cfg.InboxMailbox
    /\ cfg.ScanMailbox # cfg.UndetectedMailboxName
    /\ cfg.BackupMailbox \notin {"", cfg.InboxMailbox}
    /\ cfg.SpamTreshold > 0
    /\ cfg.TempDir = "dir"

\* ---------------------------------------------------------------- learn passes alone
\* ProcessHam or ProcessSpam with an empty mailbox name returns nil.
RunLearnSkip ==
    /\ pc = "idle"
    /\ \E k \in {"ham", "spam"} : ~named[k] /\ lkind' = k
    /\ learnResult' = "nil"
    /\ pc' = "l_exit"
    /\ UNCHANGED <<phase, lastLearnAt, passResult, startRes>>
    /\ UNCHANGED <<serverVars, learnBoxVars, notLearn, passVars, learnVars,
                   cmdVars, faultsLeft>>

\* Callers run ProcessHam and ProcessSpam again and again; any call of the
\* session and of the analyzer may fail, and either mailbox name may be empty.
InitLearn ==
    /\ InitServer /\ InitClient /\ InitLocals /\ InitObs /\ InitRunner
    /\ InitNoPkg
    /\ MaxRetriesSameError = MaxRetries
    /\ RetryIntervals = <<MaxDuration>>
    /\ malformed = {}
    /\ malformedLearn = {}
    /\ lastLearn = MaxLearn
    /\ named \in [{"ham", "spam"} -> BOOLEAN]
    /\ now = 1
    /\ pc = "idle"
    /\ phase = "pass"
    /\ spamTreshold = Min(Tresholds)
    /\ lastUID = MaxMails
    /\ faultsLeft = Unlimited

NextLearn ==
    \/ DeliverHam \/ DeliverUndetected
    \/ RunHam \/ RunSpam \/ RunLearnSkip
    \/ LearnNext

SpecLearn == InitLearn /\ [][NextLearn]_vars

\* The destination of the running learn pass.
LearnDest == IF lkind = "ham" THEN learnedInbox ELSE learnedSpam

\* learn has returned because learnFn failed for msg.
LearnFnFailed ==
    pc = "l_exit" /\ msg # Nil /\ msg \notin Range(learnedMsgUIDs)

\* C26: when learnFn fails for a message the pass returns nil and moves
\* nothing: the step changes no mailbox, and the failed message and the
\* messages learned before it are still in the source mailbox.
C26_FailedLearnMovesNothing ==
    /\ [](LearnFnFailed =>
            /\ learnResult = "nil"
            /\ (Range(learnedMsgUIDs) \cup {msg}) \subseteq LearnSrc
            /\ Range(learnedMsgUIDs) \cap LearnDest = {})
    /\ [][(pc = "l_learn" /\ pc' = "l_exit") =>
            UNCHANGED <<serverVars, learnBoxVars>>]_vars
C26_Witness ==
    /\ LearnFnFailed
    /\ learnedMsgUIDs # <<>>
    /\ learnResult = "nil"

\* The messages of the running pass in the order of the fetch.
Pending ==
    learnedMsgUIDs \o (IF pc = "l_learn" THEN <<msg>> ELSE <<>>) \o todo

\* C27: a learn pass without a failure hands all messages the source mailbox
\* held to one Move to its destination, and no other step of a pass moves a
\* message; with an empty source or an empty mailbox name the pass returns
\* nil without a Move.
C27_OneMoveOfAll ==
    [][/\ (pc = "l_select" /\ pc' \in {"l_fetch", "l_after"}) =>
            Pending' = Ascending(LearnSrc)
       /\ (pc \in {"l_fetch", "l_learn"} /\ pc' \in {"l_fetch", "l_learn", "l_after"}) =>
            Pending' = Pending
       /\ (pc = "l_after" /\ pc' = "l_exit" /\ learnResult' = "nil") =>
            /\ todo = <<>>
            /\ LearnSrc' = LearnSrc \ Range(learnedMsgUIDs)
            /\ LearnDest' = LearnDest \cup Range(learnedMsgUIDs)
       /\ (learnedInbox' # learnedInbox \/ learnedSpam' # learnedSpam) =>
            (pc = "l_after" /\ pc' = "l_exit" /\ learnedMsgUIDs # <<>>)
       /\ (pc = "idle" /\ pc' = "l_exit") =>
            (learnResult' = "nil" /\ UNCHANGED learnBoxVars)]_vars
C27_Witness ==
    /\ pc = "l_exit"
    /\ learnResult = "nil"
    /\ lkind = "spam"
    /\ Len(learnedMsgUIDs) = MaxLearn
    /\ learnedSpam = Range(learnedMsgUIDs)
    /\ undetectedMailbox = {}

\* ---------------------------------------------------------------- the first pass of Start
\* Start up to its first call of Monitor.
NextRunOnce ==
    \/ Deliver \/ DeliverHam \/ DeliverUndetected
    \/ StartAdd \/ StartReturn
    \/ LearnNext
    \/ PassNext

SpecRunOnce == Init /\ [][NextRunOnce]_vars

\* C28: Start runs ProcessHam, then ProcessSpam, then ProcessScanBox; each
\* of them is entered only after the one before returned nil, and an error
\* of one of them makes Start return an error without running the later ones.
C28_RunOnceOrder ==
    [][(phase = "init" /\ pc' # pc) =>
         /\ pc' = "l_begin" =>
              \/ pc = "s_add" /\ lkind' = "ham"
              \/ pc = "l_exit" /\ lkind = "ham" /\ learnResult = "nil"
                   /\ lkind' = "spam"
         /\ pc' = "p_begin" =>
              (pc = "l_exit" /\ lkind = "spam" /\ learnResult = "nil")
         /\ pc' = "m_select" => (pc = "p_exit" /\ passResult = "nil")
         /\ (pc = "l_exit" /\ learnResult = "err") =>
              (pc' = "s_ret" /\ startRes' = "err")
         /\ (pc = "p_exit" /\ passResult = "err") =>
              (pc' = "s_ret" /\ startRes' = "err")
         /\ pc \in {"s_ret", "done"} => pc' = "done"]_vars
C28_Witness ==
    /\ phase = "init"
    /\ pc = "done"
    /\ startRes = "err"
    /\ lkind = "spam"
    /\ learnedInbox # {}
    /\ undetectedMailbox # {}
    /\ scanMailbox # {}
    /\ backupMailbox = [m \in Mails |-> 0]

\* ---------------------------------------------------------------- the handler and the event channel
\* C29: the handler never sends on a closed channel.  The channel that
\* c.newMessagesCh refers to is open; the handler that holds c.mu sends to
\* the channel it read from c.newMessagesCh, which still refers to it; and a
\* channel is closed only when neither c.newMessagesCh nor a handler that
\* holds c.mu refers to it.
C29_NoSendOnClosed ==
    /\ [](~sendOnClosed)
    /\ [](newMessagesCh # Nil => ~chans[newMessagesCh].closed)
    /\ [](mu = "handler" => (hch # Nil /\ hch = newMessagesCh))
    /\ [][\A c \in ChanIds :
            (chans'[c].closed /\ ~chans[c].closed) =>
               /\ newMessagesCh # c
               /\ ~(mu = "handler" /\ hch = c)]_vars

\* The handler holds c.mu and is about to send its event to the empty
\* channel, while the stop function waits for c.mu to clear the pointer.
C29_Witness ==
    /\ pc = "c_unset"
    /\ stopKind = "idle"
    /\ mu = "handler"
    /\ hch = eventCh
    /\ hch = newMessagesCh
    /\ chans[hch].buf = <<>>
    /\ hnum > 0

\* ---------------------------------------------------------------- rspamc.Client.Check
\* What a request can meet: http.NewRequestWithContext builds it or not, the
\* transport delivers a response or not, and the response has a status, a
\* content type and a body that decodes to a score or does not decode.
Statuses == {199, 200, 204, 208, 299, 300, 301, 500}
Responses ==
    [build : BOOLEAN, transport : BOOLEAN, status : Statuses,
     ctype : {"application/json", "text/html"}, decodes : BOOLEAN,
     score : Scores]

notCheck == <<serverVars, learnBoxVars, cltVars, ctlVars, passVars, replVars,
              learnVars, monVars, hVars, stopVars, histVars, logVars, cmdVars,
              faultsLeft, envVars, retryVars, mailVars, asVars, newVars, hdrVars, tmpVars, sendVars, fetchVars>>

\* Check returns (&result, nil): result is the zero CheckResult unless the
\* decoder has filled it.
CheckReturn(res) ==
    /\ cpc = "idle"
    /\ checkRes' = res
    /\ cpc' = "checked"
    /\ UNCHANGED <<rsp, filed, notCheck>>

ZeroResult == [err |-> "nil", result |-> "zero", score |-> 0]
ErrResult == [err |-> "err", result |-> "nil", score |-> 0]

\* http.NewRequestWithContext fails: sendRequest returns nil.
CheckBuildFail ==
    /\ ~rsp.build
    /\ CheckReturn(ZeroResult)

\* http.DefaultClient.Do fails: sendRequest returns nil.
CheckDoFail ==
    /\ rsp.build
    /\ ~rsp.transport
    /\ CheckReturn(ZeroResult)

\* resp.StatusCode != http.StatusOK: nil for a status of 200..300, else an
\* error.
CheckStatus ==
    /\ rsp.build
    /\ rsp.transport
    /\ rsp.status # 200
    /\ CheckReturn(IF rsp.status >= 200 /\ rsp.status <= 300
                     THEN ZeroResult
                     ELSE ErrResult)

\* The content type is not application/json.
CheckContentType ==
    /\ rsp.build
    /\ rsp.transport
    /\ rsp.status = 200
    /\ rsp.ctype # "application/json"
    /\ CheckReturn(ErrResult)

\* json.NewDecoder(resp.Body).Decode(result) fails.
CheckDecodeFail ==
    /\ rsp.build
    /\ rsp.transport
    /\ rsp.status = 200
    /\ rsp.ctype = "application/json"
    /\ ~rsp.decodes
    /\ CheckReturn(ErrResult)

\* The body is decoded into result.
CheckDecodeOK ==
    /\ rsp.build
    /\ rsp.transport
    /\ rsp.status = 200
    /\ rsp.ctype = "application/json"
    /\ rsp.decodes
    /\ CheckReturn([err |-> "nil", result |-> "decoded", score |-> rsp.score])

\* downloadAndScan returns the error of Check: the mail is not filed.
ScanCheckErr ==
    /\ cpc = "checked"
    /\ checkRes.err = "err"
    /\ cpc' = "done"
    /\ UNCHANGED <<rsp, checkRes, filed, notCheck>>

\* The mail goes on with the result of Check; replaceWithModifiedMails
\* chooses its mailbox by isSpam.
ScanCheckFile ==
    /\ cpc = "checked"
    /\ checkRes.err = "nil"
    /\ filed' = IF isSpam(checkRes.score) THEN "spam" ELSE "inbox"
    /\ cpc' = "done"
    /\ UNCHANGED <<rsp, checkRes, notCheck>>

\* The next mail is checked.
CheckAgain ==
    /\ cpc = "done"
    /\ rsp' \in Responses
    /\ cpc' = "idle"
    /\ checkRes' = NoCheck
    /\ filed' = "none"
    /\ UNCHANGED notCheck

InitCheck ==
    /\ InitCoreIdle
    /\ InitFetchIdle
    /\ InitSendIdle
    /\ InitTmpIdle
    /\ InitHdrIdle
    /\ InitAddIdle
    /\ InitAsIdle
    /\ InitNewIdle
    /\ rsp \in Responses
    /\ cpc = "idle"
    /\ checkRes = NoCheck
    /\ filed = "none"

NextCheck ==
    \/ CheckBuildFail \/ CheckDoFail \/ CheckStatus \/ CheckContentType
    \/ CheckDecodeFail \/ CheckDecodeOK
    \/ ScanCheckErr \/ ScanCheckFile
    \/ CheckAgain

SpecCheck == InitCheck /\ [][NextCheck]_vars

\* The response is a decodable application/json response of status 200.
Decodable ==
    /\ rsp.build
    /\ rsp.transport
    /\ rsp.status = 200
    /\ rsp.ctype = "application/json"
    /\ rsp.decodes

\* C30: Check returns a verdict only when it was decoded from a 200
\* application/json response, and an error otherwise; the caller files
\* a mail in the inbox only with a decoded verdict.
C30_VerdictOnlyDecoded ==
    /\ cpc \in {"checked", "done"} =>
         IF Decodable
           THEN checkRes = [err |-> "nil", result |-> "decoded",
                            score |-> rsp.score]
           ELSE checkRes = ErrResult
    /\ filed = "inbox" => Decodable

\* ---------------------------------------------------------------- the end of a scan pass
\* The UIDs of the mails the pass has scanned.
ScannedOfPass == {scannedMails[i].UID : i \in 1..Len(scannedMails)}

\* replaceWithModifiedMails has run in this pass, over all of scannedMails.
Replaced ==
    /\ replResult # "none"
    /\ moveOK \cup moveFailed = ScannedOfPass

\* C31: when ProcessScanBox returns, replaceWithModifiedMails has run with
\* all mails the pass has scanned, on every way the iteration ended; the
\* result is the join of the scan error and the errors of the replacement;
\* and after a failed downloadAndScan the failed message and the messages
\* after it were not processed.
C31_ReplaceOnEveryEnd ==
    pc = "p_exit" =>
      /\ Replaced
      /\ passResult = Join(errs + replErrs)
      /\ errs >= 1 => NotScanned \cap ScannedOfPass = {}

\* ---------------------------------------------------------------- the monitor loop of Start
\* The clock advances.
Tick ==
    /\ now' = 3 - now
    /\ UNCHANGED <<serverVars, learnBoxVars, cltVars, ctlVars, passVars,
                   replVars, learnVars, monVars, hVars, stopVars, histVars,
                   logVars, cmdVars, faultsLeft, malformed, malformedLearn,
                   lastLearn, named, retryVars, pkgVars>>

\* Start with its loop, the handler, deliveries and the clock; Stop is not
\* called.
NextLoop ==
    \/ Deliver \/ DeliverHam \/ DeliverUndetected \/ Tick
    \/ StartAdd \/ StartReturn
    \/ LearnNext
    \/ PassNext
    \/ MonitorNext
    \/ SelTimer \/ SelEvent
    \/ CancelNoop \/ CancelIdleOK \/ CancelIdleFail \/ CancelUnset \/ CancelClose
    \/ AfterCancelErr \/ AfterTimer \/ AfterEventNone \/ AfterEventNew
    \/ HandlerNext

SpecLoop == Init /\ [][NextLoop]_vars

\* A pass of the loop returns an error to Start.
LoopStepFails ==
    /\ phase \in {"timer", "event"}
    /\ \/ pc = "p_exit" /\ passResult = "err"
       \/ pc = "l_exit" /\ learnResult = "err"

\* C32: in the loop a learn pass is entered only in the timer case: ProcessHam
\* after ProcessScanBox returned nil, ProcessSpam after ProcessHam returned
\* nil; the scan of the timer case is entered after the stop function
\* returned nil, with IDLE ended; lastLearnAt is set only when ProcessSpam
\* returned nil after the other two did; and an error of a pass makes Start
\* return an error, lastLearnAt unchanged.
C32_TimerCaseOrder ==
    [][/\ (phase # "init" /\ pc' = "l_begin" /\ pc # "l_begin") =>
            /\ phase = "timer"
            /\ \/ pc = "p_exit" /\ passResult = "nil" /\ lkind' = "ham"
               \/ pc = "l_exit" /\ lkind = "ham" /\ learnResult = "nil"
                    /\ lkind' = "spam"
       /\ (phase' = "timer" /\ pc' = "p_begin" /\ pc # "p_begin") =>
            /\ pc = "s_after"
            /\ branch = "timer"
            /\ stopErr = "nil"
            /\ ~idleActive
            /\ newMessagesCh = Nil
       /\ (phase # "init" /\ lastLearnAt' # lastLearnAt) =>
            /\ phase = "timer"
            /\ pc = "l_exit"
            /\ lkind = "spam"
            /\ learnResult = "nil"
            /\ passResult = "nil"
            /\ lastLearnAt' = now
       /\ (LoopStepFails /\ pc' # pc) =>
            /\ pc' = "s_ret"
            /\ startRes' = "err"
            /\ lastLearnAt' = lastLearnAt]_vars

\* ProcessSpam of a timer case has returned nil after the scan and ProcessHam
\* did, at an instant other than the one lastLearnAt holds.
C32_Witness ==
    /\ phase = "timer"
    /\ pc = "l_exit"
    /\ lkind = "spam"
    /\ learnResult = "nil"
    /\ passResult = "nil"
    /\ lastLearnAt # now
    /\ learnedSpam # {}


\* The positions of the routine inside ProcessHam and ProcessSpam.
InLearn == pc \in {"l_begin", "l_select", "l_fetch", "l_learn", "l_after", "l_exit"}

\* C33: after an event Start has the stop function return and then, with
\* NewMsgCount == 0, calls Monitor again without a pass; with NewMsgCount > 0
\* it runs ProcessScanBox, entered only here on the event path, and calls
\* Monitor when it returned nil; ProcessHam and ProcessSpam do not run on
\* the event path.
C33_EventPath ==
    /\ [](phase = "event" => ~InLearn)
    /\ []((pc = "s_after" /\ branch = "event") =>
             (~idleActive /\ newMessagesCh = Nil /\ chans[eventCh].closed))
    /\ [][/\ (pc = "s_after" /\ branch = "event" /\ stopErr = "nil"
                /\ pc' # pc) =>
               IF evA = 0
                 THEN pc' = "m_select" /\ phase' = phase
                 ELSE pc' = "p_begin" /\ phase' = "event"
          /\ (phase' = "event" /\ pc' = "p_begin" /\ pc # "p_begin") =>
               (pc = "s_after" /\ branch = "event" /\ evA > 0)
          /\ (phase = "event" /\ pc = "p_exit" /\ passResult = "nil"
                /\ pc' # pc) =>
               pc' = "m_select"]_vars

\* The stop function has returned nil after an event with NewMsgCount == 0.
C33_Witness ==
    /\ pc = "s_after"
    /\ branch = "event"
    /\ evA = 0
    /\ stopErr = "nil"
    /\ stopKind = "idle"


\* C34: Monitor of a mailbox that holds messages returns, without IDLE and
\* without registering the channel, a closed channel that holds one event
\* with the number of messages, and a stop function that changes nothing;
\* the select of Start never finds the channel closed and empty, and Start
\* goes on to ProcessScanBox.
C34_MailboxNotEmpty ==
    /\ [](pc = "s_select" =>
            ~(chans[eventCh].closed /\ chans[eventCh].buf = <<>>))
    /\ []((pc \in {"s_select", "c_call"} /\ stopKind = "noop") =>
            (~idleActive /\ newMessagesCh = Nil /\ chans[eventCh].closed))
    /\ [][/\ (pc = "m_select" /\ scanMailbox # {} /\ pc' \notin {pc, "s_ret"}) =>
               /\ pc' = "s_select"
               /\ stopKind' = "noop"
               /\ chans'[eventCh'] = [buf |-> <<Cardinality(scanMailbox)>>,
                                      closed |-> TRUE]
          /\ (pc = "s_select" /\ stopKind = "noop" /\ pc' # pc) =>
               /\ pc' = "c_call"
               /\ branch' \in {"event", "timer"}
               /\ branch' = "event" => evA' > 0
          /\ (pc = "c_call" /\ stopKind = "noop" /\ pc' # pc) =>
               /\ pc' = "s_after"
               /\ stopErr' = "nil"
               /\ UNCHANGED <<chans, newMessagesCh, idleActive>>
          /\ (pc = "s_after" /\ stopKind = "noop" /\ pc' # pc) =>
               pc' = "p_begin"]_vars

\* Start has received the event of the closed channel that Monitor returned
\* for a mailbox with messages, and the stop function has returned.
C34_Witness ==
    /\ pc = "s_after"
    /\ stopKind = "noop"
    /\ branch = "event"
    /\ evA = Cardinality(scanMailbox)
    /\ evA > 0
    /\ chans[eventCh] = [buf |-> <<>>, closed |-> TRUE]


\* ---------------------------------------------------------------- root causes in the Runner
\* Fn fails with a retryable error right after the failure Run has slept on.
NextFailure ==
    /\ rpc = "call"
    /\ calls >= 1
    /\ calls' = calls + 1
    /\ fnErr' \in Errors
    /\ fnErr'.retryable

\* C35: of two consecutive failures of a Run the second counts as the same
\* error iff both have the same root cause, whatever the number of wrappers
\* of either: the counter goes on then, and Run returns when it reaches the
\* cap; otherwise the counter restarts at 1.
C35_SameRootCause ==
    [][NextFailure =>
         IF fnErr'.root = fnErr.root
           THEN /\ failures' = failures + 1
                /\ failures' >= MaxRetriesSameError =>
                     (rpc' = "done" /\ runResult'.kind = "maxretries")
           ELSE failures' = 1]_vars


\* ---------------------------------------------------------------- addScanResultHeaders
\* The symbols of a verdict, numbered in the alphabetical order of their
\* names; the score of a symbol is zero (0) or not (1).
SymbolNames == 1..MaxSymbols
Verdicts == UNION {[S -> {0, 1}] : S \in SUBSET SymbolNames}

\* The header lines: X-rspamd-iscan-Symbol-<name> and X-rspamd-iscan-Score.
SymbolLine(n) == [kind |-> "Symbol", name |-> n]
ScoreLine == [kind |-> "Score", name |-> 0]

notHdr == <<serverVars, learnBoxVars, cltVars, ctlVars, passVars, replVars,
            learnVars, monVars, hVars, stopVars, histVars, logVars, cmdVars,
            faultsLeft, envVars, retryVars, mailVars, asVars, newVars, checkVars, tmpVars, sendVars, fetchVars>>

\* toHdrMap with skipZeroScore, then hdrs[...+"Score"]; AsHeaders is called
\* with the map.
HdrBegin ==
    /\ hpc = "idle"
    /\ hdrMap' = {SymbolLine(n) : n \in {k \in DOMAIN symbols : symbols[k] # 0}}
                   \cup {ScoreLine}
    /\ hdrsData' = <<>>
    /\ hpc' = "range"
    /\ UNCHANGED <<symbols, notHdr>>

\* for k, v := range hdrs: the range over a map yields the entries in an
\* order that is not specified; the line of the entry is appended.
HdrRange ==
    /\ hpc = "range"
    /\ \E l \in hdrMap :
         /\ hdrsData' = Append(hdrsData, l)
         /\ hdrMap' = hdrMap \ {l}
    /\ UNCHANGED <<symbols, hpc, notHdr>>

\* The range is over: AsHeaders returns the lines.
HdrEnd ==
    /\ hpc = "range"
    /\ hdrMap = {}
    /\ hpc' = "done"
    /\ UNCHANGED <<symbols, hdrMap, hdrsData, notHdr>>

InitHdr ==
    /\ InitCoreIdle
    /\ InitFetchIdle
    /\ InitSendIdle
    /\ InitTmpIdle
    /\ InitAddIdle
    /\ InitAsIdle
    /\ InitNewIdle
    /\ InitCheckIdle
    /\ symbols \in Verdicts
    /\ hdrMap = {}
    /\ hdrsData = <<>>
    /\ hpc = "idle"

NextHdr == HdrBegin \/ HdrRange \/ HdrEnd

SpecHdr == InitHdr /\ [][NextHdr]_vars

\* The symbols of the verdict with a score other than zero.
NonZero == {n \in DOMAIN symbols : symbols[n] # 0}

\* The lines in the order of the names, the score line last.
RECURSIVE SymbolLines(_)
SymbolLines(s) ==
    IF s = <<>> THEN <<>> ELSE <<SymbolLine(Head(s))>> \o SymbolLines(Tail(s))
SortedLines == SymbolLines(Ascending(NonZero)) \o <<ScoreLine>>

\* C36: the header block holds one Symbol line per symbol with a non-zero
\* score, in the alphabetical order of the names, and then the Score line as
\* the last line, so that the same verdict always gives the same block.
C36_SortedScoreLast ==
    hpc = "done" => hdrsData = SortedLines


\* ---------------------------------------------------------------- temporary files
\* The temp files of one ProcessScanBox pass.  The message with UID u is
\* spooled into the temp file u.  os.Remove is taken to succeed.
TmpMails == 1..MaxTmpMails

notTmp == <<serverVars, learnBoxVars, cltVars, ctlVars, passVars, replVars,
            learnVars, monVars, hVars, stopVars, histVars, logVars, cmdVars,
            faultsLeft, envVars, retryVars, mailVars, asVars, newVars, checkVars,
            hdrVars, sendVars, fetchVars>>

\* The steps of downloadAndScan that call errCleanupfn when they fail.
CleanedSteps == {"Copy", "Seek", "Check", "Close"}

\* errCleanupfn, and the end of the loop body of replaceWithModifiedMails:
\* the file is removed unless keepTempFiles is set.
RemoveUnlessKept(u) == IF keepTempFiles THEN tmpFiles ELSE tmpFiles \ {u}

\* ProcessScanBox is entered.
TmpBegin ==
    /\ tpc = "idle"
    /\ tpc' = "fetch"
    /\ tIdx' = 1
    /\ UNCHANGED <<keepTempFiles, tmpBox, tmpFiles, tmpCreated, tmpFailed,
                   tScanned, notTmp>>

\* Messages yields the next message: downloadAndScan is called.
TmpFetchNext ==
    /\ tpc = "fetch"
    /\ tIdx <= tmpBox
    /\ tpc' = "create"
    /\ UNCHANGED <<keepTempFiles, tmpBox, tmpFiles, tmpCreated, tmpFailed,
                   tScanned, tIdx, notTmp>>

\* Messages yields an error: ProcessScanBox returns it at once.
TmpFetchFail ==
    /\ tpc = "fetch"
    /\ tpc' = "done"
    /\ UNCHANGED <<keepTempFiles, tmpBox, tmpFiles, tmpCreated, tmpFailed,
                   tScanned, tIdx, notTmp>>

\* Messages is exhausted: replaceWithModifiedMails is called.
TmpFetchEnd ==
    /\ tpc = "fetch"
    /\ tIdx > tmpBox
    /\ tpc' = "replace"
    /\ tIdx' = 1
    /\ UNCHANGED <<keepTempFiles, tmpBox, tmpFiles, tmpCreated, tmpFailed,
                   tScanned, notTmp>>

\* os.CreateTemp fails: downloadAndScan returns the error, the loop breaks.
TmpCreateFail ==
    /\ tpc = "create"
    /\ tmpFailed' = [tmpFailed EXCEPT ![tIdx] = "CreateTemp"]
    /\ tpc' = "replace"
    /\ tIdx' = 1
    /\ UNCHANGED <<keepTempFiles, tmpBox, tmpFiles, tmpCreated, tScanned, notTmp>>

\* os.CreateTemp creates the file.
TmpCreate ==
    /\ tpc = "create"
    /\ tmpFiles' = tmpFiles \cup {tIdx}
    /\ tmpCreated' = tmpCreated \cup {tIdx}
    /\ tpc' = "scan"
    /\ UNCHANGED <<keepTempFiles, tmpBox, tmpFailed, tScanned, tIdx, notTmp>>

\* io.Copy, Seek, Check or Close fails: errCleanupfn runs, downloadAndScan
\* returns the error, the loop breaks.
TmpStepFail ==
    /\ tpc = "scan"
    /\ \E step \in CleanedSteps :
         tmpFailed' = [tmpFailed EXCEPT ![tIdx] = step]
    /\ tmpFiles' = RemoveUnlessKept(tIdx)
    /\ tpc' = "replace"
    /\ tIdx' = 1
    /\ UNCHANGED <<keepTempFiles, tmpBox, tmpCreated, tScanned, notTmp>>

\* addScanResultHeaders fails: downloadAndScan returns the error without
\* errCleanupfn, the loop breaks.
TmpAddHeadersFail ==
    /\ tpc = "scan"
    /\ tmpFailed' = [tmpFailed EXCEPT ![tIdx] = "AddHeaders"]
    /\ tpc' = "replace"
    /\ tIdx' = 1
    /\ UNCHANGED <<keepTempFiles, tmpBox, tmpFiles, tmpCreated, tScanned, notTmp>>

\* downloadAndScan returns the scannedMail; it is appended.
TmpScanOK ==
    /\ tpc = "scan"
    /\ tScanned' = Append(tScanned, tIdx)
    /\ tIdx' = tIdx + 1
    /\ tpc' = "fetch"
    /\ UNCHANGED <<keepTempFiles, tmpBox, tmpFiles, tmpCreated, tmpFailed, notTmp>>

\* replaceWithModifiedMails: Move to the backup mailbox fails, continue.
TmpMoveFail ==
    /\ tpc = "replace"
    /\ tIdx <= Len(tScanned)
    /\ tmpFailed' = [tmpFailed EXCEPT ![tScanned[tIdx]] = "Move"]
    /\ tIdx' = tIdx + 1
    /\ UNCHANGED <<keepTempFiles, tmpBox, tmpFiles, tmpCreated, tScanned, tpc,
                   notTmp>>

\* Move succeeds.
TmpMoveOK ==
    /\ tpc = "replace"
    /\ tIdx <= Len(tScanned)
    /\ tpc' = "upload"
    /\ UNCHANGED <<keepTempFiles, tmpBox, tmpFiles, tmpCreated, tmpFailed,
                   tScanned, tIdx, notTmp>>

\* Upload fails, continue.
TmpUploadFail ==
    /\ tpc = "upload"
    /\ tmpFailed' = [tmpFailed EXCEPT ![tScanned[tIdx]] = "Upload"]
    /\ tIdx' = tIdx + 1
    /\ tpc' = "replace"
    /\ UNCHANGED <<keepTempFiles, tmpBox, tmpFiles, tmpCreated, tScanned, notTmp>>

\* Upload succeeds: the file is removed unless keepTempFiles is set.
TmpUploadOK ==
    /\ tpc = "upload"
    /\ tmpFiles' = RemoveUnlessKept(tScanned[tIdx])
    /\ tIdx' = tIdx + 1
    /\ tpc' = "replace"
    /\ UNCHANGED <<keepTempFiles, tmpBox, tmpCreated, tmpFailed, tScanned, notTmp>>

\* The range over the scanned mails is over: ProcessScanBox returns.
TmpReturn ==
    /\ tpc = "replace"
    /\ tIdx > Len(tScanned)
    /\ tpc' = "done"
    /\ UNCHANGED <<keepTempFiles, tmpBox, tmpFiles, tmpCreated, tmpFailed,
                   tScanned, tIdx, notTmp>>

InitTmp ==
    /\ InitCoreIdle
    /\ InitFetchIdle
    /\ InitSendIdle
    /\ InitAddIdle
    /\ InitAsIdle
    /\ InitNewIdle
    /\ InitCheckIdle
    /\ InitHdrIdle
    /\ keepTempFiles \in BOOLEAN
    /\ tmpBox \in 0..MaxTmpMails
    /\ tmpFiles = {}
    /\ tmpCreated = {}
    /\ tmpFailed = [u \in TmpMails |-> "none"]
    /\ tScanned = <<>>
    /\ tIdx = 0
    /\ tpc = "idle"

NextTmp ==
    \/ TmpBegin \/ TmpFetchNext \/ TmpFetchFail \/ TmpFetchEnd
    \/ TmpCreateFail \/ TmpCreate \/ TmpStepFail \/ TmpAddHeadersFail
    \/ TmpScanOK \/ TmpMoveFail \/ TmpMoveOK \/ TmpUploadFail \/ TmpUploadOK
    \/ TmpReturn

SpecTmp == InitTmp /\ [][NextTmp]_vars

\* C37: when the pass returns, every temp file it created has been deleted
\* if KeepTempFiles is false, whichever step failed for its mail, and none
\* of them has been deleted if KeepTempFiles is true.
C37_TempFilesGone ==
    tpc = "done" =>
        tmpFiles = IF keepTempFiles THEN tmpCreated ELSE {}


\* ---------------------------------------------------------------- rspamc.Client.sendRequest
\* Check calls sendRequest with a result to decode into, Ham and Spam call
\* it with a nil result.
Endpoints == {"checkv2", "learnham", "learnspam"}
LearnEndpoints == {"learnham", "learnspam"}

\* The error sendRequest returns: nil, or an error made from the status
\* line, from the content type, or by the decoder.
NoSend == [kind |-> "none", status |-> 0]
NilErr == [kind |-> "nil", status |-> 0]
StatusErr(st) == [kind |-> "status", status |-> st]
ContentTypeErr == [kind |-> "ctype", status |-> 0]
DecodeErr == [kind |-> "decode", status |-> 0]

notSend == <<serverVars, learnBoxVars, cltVars, ctlVars, passVars, replVars,
             learnVars, monVars, hVars, stopVars, histVars, logVars, cmdVars,
             faultsLeft, envVars, retryVars, mailVars, asVars, newVars,
             cpc, checkRes, filed, hdrVars, tmpVars, fetchVars>>

\* sendRequest returns err.
SendReturn(err) ==
    /\ spc = "idle"
    /\ sendErr' = err
    /\ spc' = "done"
    /\ UNCHANGED <<rsp, endpoint, notSend>>

\* http.NewRequestWithContext fails: return nil.
SendBuildFail ==
    /\ ~rsp.build
    /\ SendReturn(NilErr)

\* http.DefaultClient.Do fails: return nil.
SendDoFail ==
    /\ rsp.build
    /\ ~rsp.transport
    /\ SendReturn(NilErr)

\* resp.StatusCode != http.StatusOK: nil for a status of 200..300, else
\* "request failed with status: " and resp.Status.
SendStatus ==
    /\ rsp.build
    /\ rsp.transport
    /\ rsp.status # 200
    /\ SendReturn(IF rsp.status >= 200 /\ rsp.status <= 300
                    THEN NilErr
                    ELSE StatusErr(rsp.status))

\* Status 200 with a content type other than application/json.
SendContentType ==
    /\ rsp.build
    /\ rsp.transport
    /\ rsp.status = 200
    /\ rsp.ctype # "application/json"
    /\ SendReturn(ContentTypeErr)

\* result == nil: the body is read and dropped.
SendNoResult ==
    /\ rsp.build
    /\ rsp.transport
    /\ rsp.status = 200
    /\ rsp.ctype = "application/json"
    /\ endpoint \in LearnEndpoints
    /\ SendReturn(NilErr)

\* The body is decoded into result, or the decoder fails.
SendDecode ==
    /\ rsp.build
    /\ rsp.transport
    /\ rsp.status = 200
    /\ rsp.ctype = "application/json"
    /\ endpoint = "checkv2"
    /\ SendReturn(IF rsp.decodes THEN NilErr ELSE DecodeErr)

\* The next request is sent.
SendAgain ==
    /\ spc = "done"
    /\ rsp' \in Responses
    /\ endpoint' \in Endpoints
    /\ sendErr' = NoSend
    /\ spc' = "idle"
    /\ UNCHANGED notSend

InitSend ==
    /\ InitCoreIdle
    /\ InitFetchIdle
    /\ InitAddIdle
    /\ InitAsIdle
    /\ InitNewIdle
    /\ InitHdrIdle
    /\ InitTmpIdle
    /\ rsp \in Responses
    /\ cpc = "idle"
    /\ checkRes = NoCheck
    /\ filed = "none"
    /\ endpoint \in Endpoints
    /\ sendErr = NoSend
    /\ spc = "idle"

NextSend ==
    \/ SendBuildFail \/ SendDoFail \/ SendStatus \/ SendContentType
    \/ SendNoResult \/ SendDecode \/ SendAgain

SpecSend == InitSend /\ [][NextSend]_vars

\* The analyzer has answered the request.
Answered == rsp.build /\ rsp.transport

\* C38: for every status outside 200..299 that the analyzer returns, 199
\* and 300 included, Check, LearnHam and LearnSpam fail with an error that
\* carries the status.
C38_NonSuccessStatusFails ==
    (spc = "done" /\ Answered /\ (rsp.status < 200 \/ rsp.status > 299)) =>
        sendErr = StatusErr(rsp.status)

\* C39: LearnHam and LearnSpam succeed for every status of 200..299,
\* whatever the body and the content type of the response are.
C39_LearnAny2xx ==
    (spc = "done" /\ Answered /\ endpoint \in LearnEndpoints
       /\ rsp.status >= 200 /\ rsp.status <= 299) =>
        sendErr = NilErr


\* ---------------------------------------------------------------- fetchNext: Envelope
\* An imap.Address has a mailbox and a host; Addr() joins them with "@".
Addresses == [mailbox : {"alice", "bob"}, host : {"example.org"}]
Addr(a) == <<a.mailbox, "@", a.host>>

\* The address lists of an envelope: up to MaxAddrs addresses each.
AddressLists == UNION {[1..n -> Addresses] : n \in 0..MaxAddrs}

\* addressesToStrings: Addr() of every address, in order.
addressesToStrings(addrs) == [i \in 1..Len(addrs) |-> Addr(addrs[i])]

notFetch == <<serverVars, learnBoxVars, cltVars, ctlVars, passVars, replVars,
              learnVars, monVars, hVars, stopVars, histVars, logVars, cmdVars,
              faultsLeft, envVars, retryVars, mailVars, asVars, newVars,
              checkVars, hdrVars, tmpVars, sendVars>>

\* fetchNext builds the Message: Recipients is slices.Concat of the strings
\* of To, of Cc, and of Cc.
FetchNextMessage ==
    /\ fpc = "idle"
    /\ Recipients' = addressesToStrings(envTo) \o addressesToStrings(envCc)
                       \o addressesToStrings(envCc)
    /\ fpc' = "done"
    /\ UNCHANGED <<envTo, envCc, envBcc, notFetch>>

InitFetch ==
    /\ InitCoreIdle
    /\ InitAddIdle
    /\ InitAsIdle
    /\ InitNewIdle
    /\ InitCheckIdle
    /\ InitHdrIdle
    /\ InitTmpIdle
    /\ InitSendIdle
    /\ envTo \in AddressLists
    /\ envCc \in AddressLists
    /\ envBcc \in AddressLists
    /\ Recipients = <<>>
    /\ fpc = "idle"

NextFetch == FetchNextMessage

SpecFetch == InitFetch /\ [][NextFetch]_vars

\* C40: Recipients of the yielded Envelope is the To addresses, then the Cc
\* addresses, then the Bcc addresses of the message, each exactly once.
C40_RecipientsToCcBcc ==
    fpc = "done" =>
        Recipients = addressesToStrings(envTo) \o addressesToStrings(envCc)
                       \o addressesToStrings(envBcc)

====
